---- MODULE Spec2Model ----
(***************************************************************************)
(* A model of scut-notipay: the token cache kept in the students table     *)
(* (src/utils/database.ts), the billing fetch with its retry loop          *)
(* (src/utils/billing.ts), the per-account token management and the hourly *)
(* collection / notification cycle (src/index.ts).                         *)
(*                                                                         *)
(* Time is in milliseconds.  Text columns are integers: NULL is SQL NULL,  *)
(* EMPTY is the empty string '', every other text is a positive number.   *)
(***************************************************************************)
EXTENDS Integers, Sequences, FiniteSets, TLC

\* ------------------------------------------------------------------ bounds
\* number of user ids (QQ ids) of the model
NumUsers == 3
\* last clock value at which the environment lets time pass by itself
MaxTicks == 2

\* ------------------------------------------------------- program constants
\* SQL NULL in a nullable TEXT column (access_token, tgc, loc_session, token_expires_at)
NULL == -1
\* the empty string '' (session.ts: let TGC = ''; let locSession = '')
EMPTY == 0
\* getTokens: 5 * 60 * 1000, the buffer before the actual expiry
MarginMs == 5 * 60 * 1000
\* getBills: the delay before the next attempt is 500 * (attempt + 1); the
\* clock of the model advances in steps of this size
BaseDelayMs == 500
\* collectData: the pause between two batches
PauseMs == 1000

Users == 1..NumUsers
\* the value of "no row" / "no result"
NoRow == [exists |-> FALSE]
Absent == <<>>

VARIABLES
    students,   \* the students table: user -> row (token columns) or NoRow
    now,        \* Date.now()
    ticks,      \* how often the environment has advanced the clock by itself
    lastOp,     \* the last call of a token-cache or parsing function: its
                \* name, arguments and result
    task,       \* user -> the call in progress for that user (token, retry loop)
    portal,     \* which answers the campus portal gives in this run: "all",
                \* "plain" (it passes, fails with a 500 or rejects the session)
                \* or "flaky" (plain, and a login request may fail in transit)
    config,     \* billingRetryCount (config.json) and the collection batch size
    history,    \* user -> number of rows of billing_history
    hourly,     \* runHourlyTasks: position, loaded students, results so far
    sent,       \* the notification messages handed to the transport, in order
    timer,      \* the process: socket, hourly timers, cycles running, shutdown
    notifications  \* the notifications table

vars == <<students, now, ticks, lastOp, task, portal, config, history, hourly,
          sent, timer, notifications>>
\* what the token-cache calls of SpecCache leave alone
cycleVars == <<task, portal, config, history, hourly, sent, timer, notifications>>

\* ------------------------------------------------------------ token cache
\* a row of the students table: the campus, whether encrypted_password
\* decrypts under the master password, and the token columns
Row(campus, a, tgc, loc, exp) ==
    [exists |-> TRUE, campus |-> campus, decrypts |-> TRUE, access_token |-> a,
     tgc |-> tgc, loc_session |-> loc, token_expires_at |-> exp]

\* the row addStudent inserts: no token yet
NewRow(campus) == Row(campus, NULL, NULL, NULL, NULL)

\* JavaScript falsiness of a nullable text column: null or ''
Falsy(x) == x = NULL \/ x = EMPTY

\* mutant: the expiry check without the 5-minute buffer
getTokensNoMargin(tbl, qqId, t) ==
    LET result == tbl[qqId] IN
    IF ~result.exists \/ Falsy(result.access_token) \/ Falsy(result.tgc)
       \/ Falsy(result.loc_session) \/ result.token_expires_at = NULL
    THEN Absent
    ELSE IF result.token_expires_at - t < 0
         THEN Absent
         ELSE <<result.access_token, result.tgc, result.loc_session>>

\* StudentDatabase.getTokens: the stored triple, or Absent
getTokens(tbl, qqId, t) ==
    LET result == tbl[qqId] IN
    IF ~result.exists \/ Falsy(result.access_token) \/ Falsy(result.tgc)
       \/ Falsy(result.loc_session) \/ result.token_expires_at = NULL
    THEN Absent
    ELSE IF result.token_expires_at - t < MarginMs
         THEN Absent
         ELSE <<result.access_token, result.tgc, result.loc_session>>

\* StudentDatabase.updateTokens: UPDATE ... WHERE qq_id = ?  (no row: no change)
updateTokens(tbl, qqId, accessToken, TGC, locSession, expiresIn, t) ==
    IF tbl[qqId].exists
    THEN [tbl EXCEPT ![qqId].access_token = accessToken,
                     ![qqId].tgc = TGC,
                     ![qqId].loc_session = locSession,
                     ![qqId].token_expires_at = t + expiresIn * 1000]
    ELSE tbl

\* mutant: the UPDATE without its WHERE clause
clearAccessTokenAll(tbl, qqId) ==
    [u \in DOMAIN tbl |->
        IF tbl[u].exists
        THEN [tbl[u] EXCEPT !.access_token = NULL, !.tgc = NULL, !.loc_session = NULL,
                            !.token_expires_at = NULL]
        ELSE tbl[u]]

\* StudentDatabase.clearAccessToken: UPDATE ... SET ... = NULL WHERE qq_id = ?
clearAccessToken(tbl, qqId) ==
    IF tbl[qqId].exists
    THEN [tbl EXCEPT ![qqId].access_token = NULL,
                     ![qqId].tgc = NULL,
                     ![qqId].loc_session = NULL,
                     ![qqId].token_expires_at = NULL]
    ELSE tbl

\* StudentDatabase.deleteStudent: DELETE FROM students WHERE qq_id = ?
\* mutant: an unbind that keeps the row
deleteStudentKeepRow(tbl, qqId) == tbl

deleteStudent(tbl, qqId) == [tbl EXCEPT ![qqId] = NoRow]

\* StudentDatabase.addStudent: INSERT ... ON CONFLICT(qq_id) DO UPDATE (token columns kept)
addStudent(tbl, qqId, campus) ==
    IF tbl[qqId].exists THEN [tbl EXCEPT ![qqId].campus = campus]
    ELSE [tbl EXCEPT ![qqId] = NewRow(campus)]

\* StudentDatabase.getCredentials: null without a row or when the password
\* does not decrypt
getCredentials(tbl, qqId) == tbl[qqId].exists /\ tbl[qqId].decrypts

\* CAMPUSES
Campuses == {"GZIC", "DXC"}

\* what obtainToken returns on success: access_token is never falsy, the two
\* cookies are '' when the response carries no such cookie
LoginTokens == {<<1, 1, 1>>, <<2, EMPTY, 2>>}

\* rep: how many db.clearAccessToken calls for the same user end in this call
NoOp == [op |-> "none", user |-> 0, tok |-> Absent, exp |-> 0, at |-> 0, n |-> 0,
         rep |-> 0]

\* ================================================================================================================================ billing
\* HTTP statuses the portal answers with in the model
Statuses == {200, 302, 401, 500}
\* Response.ok: status in the range 200-299
Ok(r) == r.status >= 200 /\ r.status <= 299

\* location header of a redirect: none, some URL, or the index page that
\* getBillsDXC expects from the last hop
NoLoc == "none"
SomeUrl == "url"
IndexPath == "/sdms-weixin-pay-sp/newWeixin/index.html"

\* A response of the portal.  net: fetch() rejected (no response at all);
\* loc: the location header; cookie: set-cookie carries JSESSIONID=...;
\* code: the application status of the JSON body (200 is success);
\* val: the balance of the body, in hundredths of a yuan.
Resp(net, status, loc, cookie, code, val) ==
    [net |-> net, status |-> status, loc |-> loc, cookie |-> cookie,
     code |-> code, val |-> val]

NetFail == Resp(TRUE, 0, NoLoc, FALSE, 0, 0)

\* an Error: noretry says that the message starts with NORETRY_ERROR_PREFIX
Err(noretry, msg, status) == [noretry |-> noretry, msg |-> msg, status |-> status]
NoError == Err(FALSE, "", 0)
NoBills == [electric |-> 0, water |-> 0, ac |-> 0]

\* what one run of getBillsGZIC / getBillsDXC comes to: the bills returned or
\* the Error thrown, and how many requests it issued
Returned(b, n) == [ok |-> TRUE, err |-> NoError, bills |-> b, nreq |-> n]
Thrown(e, n) == [ok |-> FALSE, err |-> e, bills |-> NoBills, nreq |-> n]

\* responses.find((r) => !r.ok): index of the first response that is not ok, 0 if none
FirstNotOk(rs) ==
    IF \E i \in 1..Len(rs) : ~Ok(rs[i])
    THEN CHOOSE i \in 1..Len(rs) : ~Ok(rs[i]) /\ \A j \in 1..(i - 1) : Ok(rs[j])
    ELSE 0

\* a check of the code of the first body only
FirstBadCodeHeadOnly(rs) == IF rs[1].code # 200 THEN 1 ELSE 0

\* data.find((d) => d.code !== 200)
FirstBadCode(rs) ==
    IF \E i \in 1..Len(rs) : rs[i].code # 200
    THEN CHOOSE i \in 1..Len(rs) : rs[i].code # 200 /\ \A j \in 1..(i - 1) : rs[j].code = 200
    ELSE 0

\* getBillsGZIC: three concurrent requests (feeitemid 1 electric, 2 ac, 3 water)
getBillsGZIC(rs) ==
    IF \E i \in 1..3 : rs[i].net
    THEN Thrown(Err(FALSE, "fetch failed", 0), 3)
    ELSE IF FirstNotOk(rs) # 0
    THEN LET failedResponse == rs[FirstNotOk(rs)] IN
         Thrown(Err(failedResponse.status = 401, "HTTP", failedResponse.status), 3)
    ELSE IF FirstBadCode(rs) # 0
    THEN Thrown(Err(FALSE, "API Error", rs[FirstBadCode(rs)].code), 3)
    ELSE Returned([electric |-> rs[1].val, water |-> rs[3].val, ac |-> rs[2].val], 3)

\* the check of a data response without the statusCode of its body
dataErrorHttpOnly(name, r) ==
    IF r.net THEN Err(FALSE, "fetch failed", 0)
    ELSE IF ~Ok(r) THEN Err(r.status = 401, name \o " failed: HTTP", r.status)
    ELSE NoError

\* a data request of getBillsDXC (userInfo, ammeterBalance, waterBalance):
\* the Error it throws on response r, NoError if it passes
dataError(name, r) ==
    IF r.net THEN Err(FALSE, "fetch failed", 0)
    ELSE IF ~Ok(r) THEN Err(r.status = 401, name \o " failed: HTTP", r.status)
    ELSE IF r.code # 200 THEN Err(FALSE, name \o " API Error", r.code)
    ELSE NoError

\* getBillsDXC going on to getCode whatever the authorize hop answered
getBillsDXCSkipAuthorizeCheck(rs) ==
    IF rs[1].net THEN Thrown(Err(FALSE, "fetch failed", 0), 1)
    ELSE IF rs[1].status # 302
    THEN Thrown(Err(FALSE, "Get redirect failed: Expected 302", rs[1].status), 1)
    ELSE IF rs[1].loc = NoLoc
    THEN Thrown(Err(FALSE, "Get redirect: No redirect location found", 0), 1)
    ELSE IF rs[2].net THEN Thrown(Err(FALSE, "fetch failed", 0), 2)
    ELSE IF ~rs[2].cookie
    THEN Thrown(Err(FALSE, "Get thirdLogin: Failed to get JSESSIONID cookie", 0), 2)
    ELSE IF rs[2].status # 302
    THEN Thrown(Err(FALSE, "Get thirdLogin failed: Expected 302", rs[2].status), 2)
    ELSE IF rs[2].loc = NoLoc
    THEN Thrown(Err(FALSE, "Get thirdLogin: No redirect location found", 0), 2)
    ELSE IF rs[3].net THEN Thrown(Err(FALSE, "fetch failed", 0), 3)
    ELSE IF rs[4].net THEN Thrown(Err(FALSE, "fetch failed", 0), 4)
    ELSE IF rs[4].status # 302
    THEN Thrown(Err(FALSE, "Get getCode failed: Expected 302", rs[4].status), 4)
    ELSE IF rs[4].loc # IndexPath
    THEN Thrown(Err(FALSE, "Get getCode failed: Expected redirect to index", 0), 4)
    ELSE IF dataError("Get userInfo", rs[5]) # NoError
    THEN Thrown(dataError("Get userInfo", rs[5]), 5)
    ELSE IF dataError("Get ammeterBalanceResponse", rs[6]) # NoError
    THEN Thrown(dataError("Get ammeterBalanceResponse", rs[6]), 6)
    ELSE IF dataError("Get waterBalance", rs[7]) # NoError
    THEN Thrown(dataError("Get waterBalance", rs[7]), 7)
    ELSE Returned([electric |-> rs[6].val, water |-> rs[7].val, ac |-> 0], 7)

\* getBillsDXC accepting whatever target the getCode hop redirects to
getBillsDXCAnyTarget(rs) ==
    IF rs[1].net THEN Thrown(Err(FALSE, "fetch failed", 0), 1)
    ELSE IF rs[1].status # 302
    THEN Thrown(Err(FALSE, "Get redirect failed: Expected 302", rs[1].status), 1)
    ELSE IF rs[1].loc = NoLoc
    THEN Thrown(Err(FALSE, "Get redirect: No redirect location found", 0), 1)
    ELSE IF rs[2].net THEN Thrown(Err(FALSE, "fetch failed", 0), 2)
    ELSE IF ~rs[2].cookie
    THEN Thrown(Err(FALSE, "Get thirdLogin: Failed to get JSESSIONID cookie", 0), 2)
    ELSE IF rs[2].status # 302
    THEN Thrown(Err(FALSE, "Get thirdLogin failed: Expected 302", rs[2].status), 2)
    ELSE IF rs[2].loc = NoLoc
    THEN Thrown(Err(FALSE, "Get thirdLogin: No redirect location found", 0), 2)
    ELSE IF rs[3].net THEN Thrown(Err(FALSE, "fetch failed", 0), 3)
    ELSE IF rs[3].status # 302
    THEN Thrown(Err(FALSE, "Get authorize failed: Expected 302", rs[3].status), 3)
    ELSE IF rs[3].loc = NoLoc
    THEN Thrown(Err(FALSE, "Get authorize: No redirect location found", 0), 3)
    ELSE IF rs[4].net THEN Thrown(Err(FALSE, "fetch failed", 0), 4)
    ELSE IF rs[4].status # 302
    THEN Thrown(Err(FALSE, "Get getCode failed: Expected 302", rs[4].status), 4)
    ELSE IF dataError("Get userInfo", rs[5]) # NoError
    THEN Thrown(dataError("Get userInfo", rs[5]), 5)
    ELSE IF dataError("Get ammeterBalanceResponse", rs[6]) # NoError
    THEN Thrown(dataError("Get ammeterBalanceResponse", rs[6]), 6)
    ELSE IF dataError("Get waterBalance", rs[7]) # NoError
    THEN Thrown(dataError("Get waterBalance", rs[7]), 7)
    ELSE Returned([electric |-> rs[6].val, water |-> rs[7].val, ac |-> 0], 7)

\* getBillsDXC reporting a bad status of the authorize hop under the name of
\* the hop before it
getBillsDXCMisnamedHop(rs) ==
    IF rs[1].net THEN Thrown(Err(FALSE, "fetch failed", 0), 1)
    ELSE IF rs[1].status # 302
    THEN Thrown(Err(FALSE, "Get redirect failed: Expected 302", rs[1].status), 1)
    ELSE IF rs[1].loc = NoLoc
    THEN Thrown(Err(FALSE, "Get redirect: No redirect location found", 0), 1)
    ELSE IF rs[2].net THEN Thrown(Err(FALSE, "fetch failed", 0), 2)
    ELSE IF ~rs[2].cookie
    THEN Thrown(Err(FALSE, "Get thirdLogin: Failed to get JSESSIONID cookie", 0), 2)
    ELSE IF rs[2].status # 302
    THEN Thrown(Err(FALSE, "Get thirdLogin failed: Expected 302", rs[2].status), 2)
    ELSE IF rs[2].loc = NoLoc
    THEN Thrown(Err(FALSE, "Get thirdLogin: No redirect location found", 0), 2)
    ELSE IF rs[3].net THEN Thrown(Err(FALSE, "fetch failed", 0), 3)
    ELSE IF rs[3].status # 302
    THEN Thrown(Err(FALSE, "Get thirdLogin failed: Expected 302", rs[3].status), 3)
    ELSE IF rs[3].loc = NoLoc
    THEN Thrown(Err(FALSE, "Get authorize: No redirect location found", 0), 3)
    ELSE IF rs[4].net THEN Thrown(Err(FALSE, "fetch failed", 0), 4)
    ELSE IF rs[4].status # 302
    THEN Thrown(Err(FALSE, "Get getCode failed: Expected 302", rs[4].status), 4)
    ELSE IF rs[4].loc # IndexPath
    THEN Thrown(Err(FALSE, "Get getCode failed: Expected redirect to index", 0), 4)
    ELSE IF dataError("Get userInfo", rs[5]) # NoError
    THEN Thrown(dataError("Get userInfo", rs[5]), 5)
    ELSE IF dataError("Get ammeterBalanceResponse", rs[6]) # NoError
    THEN Thrown(dataError("Get ammeterBalanceResponse", rs[6]), 6)
    ELSE IF dataError("Get waterBalance", rs[7]) # NoError
    THEN Thrown(dataError("Get waterBalance", rs[7]), 7)
    ELSE Returned([electric |-> rs[6].val, water |-> rs[7].val, ac |-> 0], 7)

\* getBillsDXC: redirect, thirdLogin, authorize, getCode; then userInfo,
\* ammeterBalance, waterBalance.  rs[k] is the response to the k-th request.
getBillsDXC(rs) ==
    IF rs[1].net THEN Thrown(Err(FALSE, "fetch failed", 0), 1)
    ELSE IF rs[1].status # 302
    THEN Thrown(Err(FALSE, "Get redirect failed: Expected 302", rs[1].status), 1)
    ELSE IF rs[1].loc = NoLoc
    THEN Thrown(Err(FALSE, "Get redirect: No redirect location found", 0), 1)
    ELSE IF rs[2].net THEN Thrown(Err(FALSE, "fetch failed", 0), 2)
    ELSE IF ~rs[2].cookie
    THEN Thrown(Err(FALSE, "Get thirdLogin: Failed to get JSESSIONID cookie", 0), 2)
    ELSE IF rs[2].status # 302
    THEN Thrown(Err(FALSE, "Get thirdLogin failed: Expected 302", rs[2].status), 2)
    ELSE IF rs[2].loc = NoLoc
    THEN Thrown(Err(FALSE, "Get thirdLogin: No redirect location found", 0), 2)
    ELSE IF rs[3].net THEN Thrown(Err(FALSE, "fetch failed", 0), 3)
    ELSE IF rs[3].status # 302
    THEN Thrown(Err(FALSE, "Get authorize failed: Expected 302", rs[3].status), 3)
    ELSE IF rs[3].loc = NoLoc
    THEN Thrown(Err(FALSE, "Get authorize: No redirect location found", 0), 3)
    ELSE IF rs[4].net THEN Thrown(Err(FALSE, "fetch failed", 0), 4)
    ELSE IF rs[4].status # 302
    THEN Thrown(Err(FALSE, "Get getCode failed: Expected 302", rs[4].status), 4)
    ELSE IF rs[4].loc # IndexPath
    THEN Thrown(Err(FALSE, "Get getCode failed: Expected redirect to index", 0), 4)
    ELSE IF dataError("Get userInfo", rs[5]) # NoError
    THEN Thrown(dataError("Get userInfo", rs[5]), 5)
    ELSE IF dataError("Get ammeterBalanceResponse", rs[6]) # NoError
    THEN Thrown(dataError("Get ammeterBalanceResponse", rs[6]), 6)
    ELSE IF dataError("Get waterBalance", rs[7]) # NoError
    THEN Thrown(dataError("Get waterBalance", rs[7]), 7)
    ELSE Returned([electric |-> rs[6].val, water |-> rs[7].val, ac |-> 0], 7)

\* the names of the cookies in the Cookie header of the k-th request of
\* getBillsDXC
cookiesSent ==
    <<{"TGC", "error_times", "locSession"},
      {"TGC", "locSession", "error_times"},
      {"JSESSIONID", "TGC", "locSession", "error_times"},
      {"JSESSIONID", "TGC", "locSession", "error_times"},
      {"JSESSIONID"}, {"JSESSIONID"}, {"JSESSIONID"}>>

\* ------------------------------------------------- what the portal answers
\* balances (hundredths of a yuan) the portal reports
Amounts == {-2000, 500, 5000}

GoodHop == Resp(FALSE, 302, SomeUrl, TRUE, 200, 0)
GoodLastHop == Resp(FALSE, 302, IndexPath, TRUE, 200, 0)
GoodData(v) == Resp(FALSE, 200, NoLoc, FALSE, 200, v)
\* a run of the seven DXC requests in which every request passes
GoodChain(v) ==
    <<GoodHop, GoodHop, GoodHop, GoodLastHop, GoodData(0), GoodData(v), GoodData(v)>>

\* every answer to a redirect hop / to a data request
HopPool ==
    {NetFail} \cup
    {Resp(FALSE, st, loc, ck, 200, 0) :
        st \in Statuses, loc \in {NoLoc, SomeUrl, IndexPath}, ck \in BOOLEAN}
DataPool ==
    {NetFail} \cup {Resp(FALSE, st, NoLoc, FALSE, 500, 0) : st \in {200, 401, 500}}
    \cup {Resp(FALSE, st, NoLoc, FALSE, 200, v) : st \in {200, 401, 500}, v \in Amounts}

\* The answers to one run of the requests of a campus.  The seven DXC requests
\* are sequential, so a run is the passing chain with one answer replaced.
\* "plain": the portal passes, fails with a 500 or rejects the session.
Scenarios(p, campus) ==
    IF campus = "GZIC"
    THEN IF p = "all"
         THEN [1..3 -> DataPool]
         ELSE {<<GoodData(v), GoodData(v), GoodData(v)>> : v \in Amounts}
              \cup {<<Resp(FALSE, 500, NoLoc, FALSE, 200, 0), GoodData(500), GoodData(500)>>,
                    <<GoodData(500), Resp(FALSE, 401, NoLoc, FALSE, 200, 0), GoodData(500)>>}
    ELSE IF p = "all"
         THEN {[GoodChain(v) EXCEPT ![k] = r] : v \in Amounts, k \in 1..4, r \in HopPool}
              \cup {[GoodChain(v) EXCEPT ![k] = r] : v \in Amounts, k \in 5..7, r \in DataPool}
         ELSE {GoodChain(v) : v \in Amounts}
              \cup {[GoodChain(500) EXCEPT ![1] = Resp(FALSE, 500, NoLoc, FALSE, 200, 0)],
                    [GoodChain(500) EXCEPT ![5] = Resp(FALSE, 401, NoLoc, FALSE, 200, 0)]}

\* ------------------------------------------------------ getBills (billing.ts)
\* config.billingRetryCount / the retryCount argument ranges over 0..MaxRetry
MaxRetry == 2

NoOut == [status |-> "none", bills |-> NoBills, err |-> NoError]

\* The call in progress for one user.  pc: "idle", "login" (a login request is
\* in flight), "fetch" (the requests of attempt `attempt` are in flight),
\* "sleep" (the delay before the next attempt runs), "done".
\* caller: who awaits getBills; phase: 1 in the try block of
\* getBillsWithTokenRefresh, 2 in its catch block.  last401: one of the
\* answers received in the latest attempt had status 401; seen: those answers,
\* in the order of their requests; nCalls, nLogins: the
\* getBills calls and login requests made so far; lastLogin: what the latest
\* login came to; reply: the messages the message handler has sent to the chat.
IdleTask ==
    [pc |-> "idle", caller |-> "none", phase |-> 0,
     campus |-> "GZIC", retryCount |-> 0,
     tok |-> Absent, tokExp |-> 0, tokAt |-> 0, tokFrom |-> "none",
     attempt |-> 0, lastError |-> NoError, waited |-> <<>>, wakeAt |-> 0,
     nAttempts |-> 0, nLogins |-> 0, reqAt |-> 0, reqs |-> 0,
     last401 |-> FALSE, seen |-> <<>>, nCalls |-> 0, nFetches |-> 0, out |-> NoOut,
     lastLogin |-> "none", reply |-> <<>>]

\* the requests of one attempt are issued at time t
issueAttempt(r, t) ==
    [r EXCEPT !.pc = "fetch", !.reqAt = t, !.nAttempts = @ + 1, !.nFetches = @ + 1,
              !.last401 = FALSE, !.seen = <<>>]

\* getBills(token, TGC, locSession, campus, retryCount) is entered at time t:
\* let lastError = null; attempt = 0; the first attempt is issued
enterGetBills(r, campus, retryCount, t) ==
    issueAttempt([r EXCEPT !.campus = campus, !.retryCount = retryCount,
                           !.attempt = 0, !.lastError = NoError,
                           !.waited = <<>>, !.nAttempts = 0, !.reqs = 0,
                           !.nCalls = @ + 1], t)

\* one of the answers to the first n requests has status 401
Saw401(rs, n) == \E k \in 1..n : ~rs[k].net /\ rs[k].status = 401

\* one run of the campus' requests on the answers rs
runAttempt(campus, rs) ==
    IF campus = "GZIC" THEN getBillsGZIC(rs) ELSE getBillsDXC(rs)

\* mutant: the same delay before every attempt
afterAttemptFlatDelay(r, o, t) ==
    IF o.ok
    THEN [r EXCEPT !.pc = "returned", !.reqs = @ + o.nreq,
                   !.out = [status |-> "ok", bills |-> o.bills, err |-> NoError]]
    ELSE IF o.err.noretry
    THEN [r EXCEPT !.pc = "thrown", !.reqs = @ + o.nreq, !.lastError = o.err,
                   !.out = [status |-> "err", bills |-> NoBills, err |-> o.err]]
    ELSE IF r.attempt < r.retryCount
    THEN [r EXCEPT !.pc = "sleep", !.reqs = @ + o.nreq, !.lastError = o.err,
                   !.wakeAt = t + BaseDelayMs,
                   !.waited = Append(@, BaseDelayMs)]
    ELSE [r EXCEPT !.pc = "thrown", !.reqs = @ + o.nreq, !.lastError = o.err,
                   !.out = [status |-> "err", bills |-> NoBills, err |-> o.err]]

\* mutant: the loop without the NORETRY break
afterAttemptAlwaysRetry(r, o, t) ==
    IF o.ok
    THEN [r EXCEPT !.pc = "returned", !.reqs = @ + o.nreq,
                   !.out = [status |-> "ok", bills |-> o.bills, err |-> NoError]]
    ELSE IF r.attempt < r.retryCount
    THEN [r EXCEPT !.pc = "sleep", !.reqs = @ + o.nreq, !.lastError = o.err,
                   !.wakeAt = t + BaseDelayMs * (r.attempt + 1),
                   !.waited = Append(@, BaseDelayMs * (r.attempt + 1))]
    ELSE [r EXCEPT !.pc = "thrown", !.reqs = @ + o.nreq, !.lastError = o.err,
                   !.out = [status |-> "err", bills |-> NoBills, err |-> o.err]]

\* the body of getBills' for loop once the attempt has come to o at time t:
\* return, break on a NORETRY error, wait before the next attempt, or fall
\* out of the loop and throw lastError
afterAttempt(r, o, t) ==
    IF o.ok
    THEN [r EXCEPT !.pc = "returned", !.reqs = @ + o.nreq,
                   !.out = [status |-> "ok", bills |-> o.bills, err |-> NoError]]
    ELSE IF o.err.noretry
    THEN [r EXCEPT !.pc = "thrown", !.reqs = @ + o.nreq, !.lastError = o.err,
                   !.out = [status |-> "err", bills |-> NoBills, err |-> o.err]]
    ELSE IF r.attempt < r.retryCount
    THEN [r EXCEPT !.pc = "sleep", !.reqs = @ + o.nreq, !.lastError = o.err,
                   !.wakeAt = t + BaseDelayMs * (r.attempt + 1),
                   !.waited = Append(@, BaseDelayMs * (r.attempt + 1))]
    ELSE [r EXCEPT !.pc = "thrown", !.reqs = @ + o.nreq, !.lastError = o.err,
                   !.out = [status |-> "err", bills |-> NoBills, err |-> o.err]]

\* the clock when a timer set for wakeAt fires: never before wakeAt
Later(t, wakeAt) == IF t < wakeAt THEN wakeAt ELSE t

\* the delay is over: attempt++, and the next attempt is issued
afterDelay(r, t) == issueAttempt([r EXCEPT !.attempt = @ + 1], t)

\* ------------------------------------- token management (src/index.ts)
\* what obtainToken comes to: it throws (network), returns null (no
\* access_token in the answer) or returns a token with its expires_in
LoginOutcomes(p) ==
    IF p = "all"
    THEN {[kind |-> "throw", tok |-> Absent, expiresIn |-> 0],
          [kind |-> "null", tok |-> Absent, expiresIn |-> 0]}
         \cup {[kind |-> "token", tok |-> tk, expiresIn |-> e] :
                  tk \in LoginTokens, e \in {300, 7200}}
    ELSE IF p = "flaky"
    THEN {[kind |-> "throw", tok |-> Absent, expiresIn |-> 0],
          [kind |-> "null", tok |-> Absent, expiresIn |-> 0],
          [kind |-> "token", tok |-> <<1, 1, 1>>, expiresIn |-> 7200]}
    ELSE {[kind |-> "null", tok |-> Absent, expiresIn |-> 0],
          [kind |-> "token", tok |-> <<1, 1, 1>>, expiresIn |-> 7200]}

\* the replies of the message handler (index.ts, by line)
MsgFailed == "operation failed, retry later (830)"
MsgSummary == "billing summary (822)"

\* the catch block of the message handler that sends nothing
failedSilently(r, e) ==
    [IdleTask EXCEPT !.pc = "done", !.caller = r.caller,
                     !.out = [status |-> "err", bills |-> NoBills, err |-> e],
                     !.reply = r.reply]

\* the call ends with Error e: collectStudentData's catch block makes it a
\* Collection Result with success = false; the catch block of the message
\* handler sends the one failure message
failed(r, e) ==
    [IdleTask EXCEPT !.pc = "done", !.caller = r.caller,
                     !.out = [status |-> "err", bills |-> NoBills, err |-> e],
                     !.reply = IF r.caller \in {"query", "bind", "notify"}
                               THEN Append(r.reply, MsgFailed) ELSE r.reply]

\* the query command got its bills: db.updateLastLogin, the summary is sent
answered(r) ==
    [IdleTask EXCEPT !.pc = "done", !.caller = r.caller, !.out = r.out,
                     !.reply = Append(r.reply, MsgSummary)]

\* the call ends with the bills getBills returned: success = true
succeeded(r) ==
    [IdleTask EXCEPT !.pc = "done", !.caller = r.caller, !.out = r.out]

\* getBillsWithTokenRefresh's catch block after db.clearAccessToken, on the
\* table tbl: without credentials it throws, else the second login is issued
refreshCatch(tbl, r, u) ==
    IF ~getCredentials(tbl, u)
    THEN failed(r, Err(FALSE, "No credentials found for user", 0))
    ELSE [r EXCEPT !.pc = "login", !.phase = 2, !.nLogins = @ + 1]

\* mutant: the catch block without db.clearAccessToken
onThrowKeepToken(tbl, hist, r, u, e) ==
    IF r.phase = 1
    THEN [tbl |-> tbl, hist |-> hist, r |-> refreshCatch(tbl, r, u)]
    ELSE [tbl |-> tbl, hist |-> hist, r |-> failed(r, e)]

\* mutant: a catch block that is entered again when its own retry fails
onThrowAlwaysRefresh(tbl, hist, r, u, e) ==
    IF r.nLogins < 4
    THEN [tbl |-> clearAccessToken(tbl, u), hist |-> hist,
          r |-> refreshCatch(clearAccessToken(tbl, u), r, u)]
    ELSE [tbl |-> tbl, hist |-> hist, r |-> failed(r, e)]

\* Error e is thrown inside getBillsWithTokenRefresh: in the try block the
\* catch block runs (clear the token, log in again), in the catch block the
\* error leaves the function
onThrow(tbl, hist, r, u, e) ==
    IF r.phase = 1
    THEN [tbl |-> clearAccessToken(tbl, u), hist |-> hist,
          r |-> refreshCatch(clearAccessToken(tbl, u), r, u)]
    ELSE [tbl |-> tbl, hist |-> hist, r |-> failed(r, e)]

\* login() has come to outcome x at time t: getValidToken (phase 1) or the
\* catch block (phase 2) stores the token and getBills is entered with it
onLogin(tbl, hist, r, u, x, t, retryCount) ==
    IF x.kind = "throw" THEN onThrow(tbl, hist, r, u, Err(FALSE, "fetch failed", 0))
    ELSE IF x.kind = "null" THEN onThrow(tbl, hist, r, u, Err(FALSE, "Login failed", 0))
    ELSE LET stored == updateTokens(tbl, u, x.tok[1], x.tok[2], x.tok[3], x.expiresIn, t)
             r2 == [r EXCEPT !.tok = x.tok, !.tokExp = t + x.expiresIn * 1000,
                             !.tokAt = t, !.tokFrom = "login"]
         IN  IF ~stored[u].exists
             THEN onThrow(stored, hist, r2, u, Err(FALSE, "No campus found for user", 0))
             ELSE [tbl |-> stored, hist |-> hist,
                   r |-> enterGetBills(r2, stored[u].campus, retryCount, t)]

\* mutant: a snapshot is recorded for a failed fetch as well
onBillsAppendAlways(tbl, hist, r, u, fk) ==
    IF r.pc = "sleep" THEN [tbl |-> tbl, hist |-> hist, r |-> r]
    ELSE IF r.caller = "getBills" THEN [tbl |-> tbl, hist |-> hist, r |-> [r EXCEPT !.pc = "done"]]
    ELSE IF r.pc = "returned"
    THEN [tbl |-> tbl, hist |-> [hist EXCEPT ![u] = @ + 1], r |-> succeeded(r)]
    ELSE onThrow(tbl, [hist EXCEPT ![u] = @ + 1], r, u, r.lastError)

\* getBills has returned or thrown (r is the call after afterAttempt).
\* A caller of getBills itself is done.  The query command on a result sends
\* the summary.  collectStudentData on a result:
\* db.addBillingHistory, success = true; fk: the insert of a snapshot for a
\* deleted student is refused by the foreign key
onBills(tbl, hist, r, u, fk) ==
    IF r.pc = "sleep" THEN [tbl |-> tbl, hist |-> hist, r |-> r]
    ELSE IF r.caller = "getBills" THEN [tbl |-> tbl, hist |-> hist, r |-> [r EXCEPT !.pc = "done"]]
    ELSE IF r.pc = "returned" /\ r.caller = "query"
    THEN [tbl |-> tbl, hist |-> hist, r |-> answered(r)]
    ELSE IF r.pc = "returned"
    THEN IF tbl[u].exists \/ ~fk
         THEN [tbl |-> tbl, hist |-> [hist EXCEPT ![u] = @ + 1], r |-> succeeded(r)]
         ELSE [tbl |-> tbl, hist |-> hist,
               r |-> failed(r, Err(FALSE, "FOREIGN KEY constraint failed", 0))]
    ELSE onThrow(tbl, hist, r, u, r.lastError)


\* mutant: getValidToken that logs in without reading the cache
startCollectAlwaysLogin(tbl, u, t, retryCount) ==
    LET r == [IdleTask EXCEPT !.caller = "collect", !.phase = 1] IN
    IF ~getCredentials(tbl, u) THEN failed(r, Err(FALSE, "No credentials found", 0))
    ELSE [r EXCEPT !.pc = "login", !.nLogins = 1]

\* collectStudentData(student) up to its first await, at time t
startCollect(tbl, u, t, retryCount) ==
    LET r == [IdleTask EXCEPT !.caller = "collect", !.phase = 1]
        stored == getTokens(tbl, u, t) IN
    IF ~getCredentials(tbl, u) THEN failed(r, Err(FALSE, "No credentials found", 0))
    ELSE IF stored # Absent
    THEN enterGetBills([r EXCEPT !.tok = stored, !.tokExp = tbl[u].token_expires_at,
                                 !.tokAt = t, !.tokFrom = "cache"],
                       tbl[u].campus, retryCount, t)
    ELSE [r EXCEPT !.pc = "login", !.nLogins = 1]

\* ------------------------------------------- the process (src/index.ts)
\* 60 * 60 * 1000, the period of setInterval(runHourlyTasks, ...)
HourMs == 60 * 60 * 1000
\* SIGINT handler: setTimeout(resolve, 5000)
GracePeriodMs == 5000

\* The process when it starts.  phase: "up", "stopping" (SIGINT handled, the
\* handler awaits the socket's close or the 5 s timeout), "exited".
\* pending: the setTimeout timers of startHourlyTimer not fired yet; live: the
\* setInterval timers not cleared; hourlyInterval: the handle the variable of
\* that name holds (the id of the startHourlyTimer call), NULL for null;
\* closed: socketClose has been signalled; running: the runHourlyTasks calls
\* in progress; triggers: when runHourlyTasks was called, by which timer;
\* lateStart: runHourlyTasks was called after SIGINT was handled.
NoTimer ==
    [phase |-> "up", connected |-> FALSE, closed |-> FALSE, opens |-> 0,
     pending |-> {}, live |-> {}, hourlyInterval |-> NULL, running |-> 0,
     triggers |-> <<>>, sigintAt |-> 0, lateStart |-> FALSE]

\* The hourly cycle (runHourlyTasks) when none runs.  pc: "off", "collect" (a
\* batch is in flight), "pause" (the pause between two batches), "notify"
\* (phase 2, results[k] is next), "done".  batches, batchStartAt, batchEndAt and
\* evaluated record what collectData and sendNotificationForStudent did.
NoHourly ==
    [pc |-> "off", hour |-> 0, list |-> <<>>, i |-> 0, batch |-> <<>>,
     batches |-> <<>>, batchStartAt |-> 0, batchEndAt |-> 0, wakeAt |-> 0,
     results |-> <<>>, k |-> 0, evaluated |-> {}]

\* ---------------------------------------------------------------- steps
\* the answers to the requests of the attempt in flight arrive
FetchReturnOf(s, u) ==
    /\ task[s].pc = "fetch"
    /\ \E rs \in Scenarios(portal, task[s].campus), fk \in BOOLEAN :
          LET o == runAttempt(task[s].campus, rs)
              x == onBills(students, history, afterAttempt(task[s], o, now), u, fk)
          IN  /\ students' = x.tbl
              /\ history' = x.hist
              /\ task' = [task EXCEPT ![s] =
                            IF x.r.pc \in {"sleep", "done"} /\ x.r.caller = "getBills"
                            THEN [x.r EXCEPT !.last401 = Saw401(rs, o.nreq),
                                             !.seen = SubSeq(rs, 1, o.nreq)]
                            ELSE [x.r EXCEPT !.last401 = Saw401(rs, o.nreq)]]
    /\ UNCHANGED <<now, ticks, lastOp, portal, timer, config, hourly, sent, notifications>>

\* each user has one call in flight at most: the call of user u runs in slot u
FetchReturn(u) == FetchReturnOf(u, u)

\* the delay between two attempts is over
WakeOf(s) ==
    /\ task[s].pc = "sleep"
    /\ now' = Later(now, task[s].wakeAt)
    /\ task' = [task EXCEPT ![s] = afterDelay(task[s], now')]
    /\ UNCHANGED <<students, ticks, lastOp, portal, timer, config, history, hourly, sent,
                   notifications>>

Wake(u) == WakeOf(u)

\* the login request of getValidToken or of the catch block comes back
LoginReturnOf(s, u) ==
    /\ task[s].pc = "login"
    /\ task[s].caller # "bind"
    /\ \E o \in LoginOutcomes(portal) :
          LET x == onLogin(students, history, task[s], u, o, now, config.billingRetryCount)
          IN  /\ students' = x.tbl
              /\ history' = x.hist
              /\ task' = [task EXCEPT ![s] = [x.r EXCEPT !.lastLogin = o.kind]]
    /\ UNCHANGED <<now, ticks, lastOp, portal, timer, config, hourly, sent, notifications>>

LoginReturn(u) == LoginReturnOf(u, u)

\* Date.now() advances
Tick ==
    /\ ticks < MaxTicks
    /\ now' = now + BaseDelayMs
    /\ ticks' = ticks + 1
    /\ UNCHANGED <<students, lastOp>>
    /\ UNCHANGED cycleVars

\* a standalone call collectStudentData(u)
StartCollect(u) ==
    /\ task[u].pc = "idle"
    /\ hourly.pc = "off"
    /\ task' = [task EXCEPT ![u] = startCollect(students, u, now, config.billingRetryCount)]
    /\ UNCHANGED <<students, now, ticks, lastOp, portal, timer, config, history, hourly, sent,
                   notifications>>

\* the message handler on "unbind": db.clearAccessToken, db.deleteStudent
Unbind(u) ==
    /\ students[u].exists
    /\ students' = deleteStudent(clearAccessToken(students, u), u)
    /\ UNCHANGED <<now, ticks, lastOp>>
    /\ UNCHANGED cycleVars

\* ------------------------------------------ the hourly cycle (src/index.ts)
\* db.getAllStudents(): the rows, newest first (user ids are handed out in
\* the order of creation)
getAllStudents(tbl) ==
    LET bound == {u \in Users : tbl[u].exists} IN
    [j \in 1..Cardinality(bound) |->
        CHOOSE u \in bound : Cardinality({v \in bound : v > u}) = j - 1]

\* mutant: a slice that runs one element into the next batch
batchOfOverlap(list, i, b) ==
    SubSeq(list, i + 1, IF i + b + 1 < Len(list) THEN i + b + 1 ELSE Len(list))

\* students.slice(i, i + batchSize)
batchOf(list, i, b) ==
    SubSeq(list, i + 1, IF i + b < Len(list) THEN i + b ELSE Len(list))

\* batch.map((student) => collectStudentData(student)): every call of the
\* batch runs up to its first await, at time t
startBatch(h, ts, tbl, t, cfg) ==
    LET batch == batchOf(h.list, h.i, cfg.batchSize)
        members == {batch[j] : j \in 1..Len(batch)} IN
    [h |-> [h EXCEPT !.pc = "collect", !.batch = batch, !.batches = Append(@, batch),
                     !.batchStartAt = t],
     ts |-> [u \in Users |->
               IF u \in members THEN startCollect(tbl, u, t, cfg.billingRetryCount)
               ELSE ts[u]]]

\* mutant: Promise.race in place of Promise.all
batchSettledAny(ts, batch) ==
    \E j \in 1..Len(batch) : ts[batch[j]].pc = "done"

\* mutant: the batch is awaited until every call has returned its bills
batchSettledAllOk(ts, batch) ==
    \A j \in 1..Len(batch) : ts[batch[j]].pc = "done" /\ ts[batch[j]].out.status = "ok"

\* Promise.all over the batch has resolved: every call has returned
batchSettled(ts, batch) ==
    \A j \in 1..Len(batch) : ts[batch[j]].pc = "done"

\* the CollectedData a call of collectStudentData returns
resultOf(u, r) ==
    [qqId |-> u, success |-> r.out.status = "ok", bills |-> r.out.bills,
     err |-> r.out.err]

\* mutant: a failed account rejects Promise.all and ends runHourlyTasks
batchResolvedAbort(h, ts, b, t) ==
    IF \E j \in 1..Len(h.batch) : ts[h.batch[j]].out.status = "err"
    THEN [h EXCEPT !.pc = "done"]
    ELSE LET results == h.results \o [j \in 1..Len(h.batch) |-> resultOf(h.batch[j], ts[h.batch[j]])]
         IN  IF h.i + b < Len(h.list)
             THEN [h EXCEPT !.pc = "pause", !.results = results, !.batchEndAt = t,
                            !.wakeAt = t + PauseMs]
             ELSE [h EXCEPT !.pc = "notify", !.results = results, !.batchEndAt = t, !.k = 1]

\* mutant: phase 2 starts once the first batch has resolved
batchResolvedNoLoop(h, ts, b, t) ==
    [h EXCEPT !.pc = "notify", !.batchEndAt = t, !.k = 1,
              !.results = @ \o [j \in 1..Len(h.batch) |-> resultOf(h.batch[j], ts[h.batch[j]])]]

\* collectData after `await Promise.all(...)` at time t: push the results of
\* the batch; then the pause before the next batch, or (the loop is over)
\* phase 2 of runHourlyTasks
batchResolved(h, ts, b, t) ==
    LET results == h.results \o [j \in 1..Len(h.batch) |-> resultOf(h.batch[j], ts[h.batch[j]])]
    IN  IF h.i + b < Len(h.list)
        THEN [h EXCEPT !.pc = "pause", !.results = results, !.batchEndAt = t,
                       !.wakeAt = t + PauseMs]
        ELSE [h EXCEPT !.pc = "notify", !.results = results, !.batchEndAt = t, !.k = 1]

\* scheduler.getNotificationsAtHourForUser(qqId, hour): the positions of the
\* user's rules for that hour, in table order
getNotificationsAtHourForUser(rules, qqId, hour) ==
    {j \in 1..Len(rules) : rules[j].qq_id = qqId /\ rules[j].hour = hour}

\* shouldSendNotification: no threshold, or a balance in [-10, threshold)
\* (amounts and thresholds in hundredths of a yuan)
shouldSendNotification(rule, bills) ==
    \/ rule.threshold = NULL
    \/ bills.electric >= -1000 /\ bills.electric < rule.threshold
    \/ bills.water >= -1000 /\ bills.water < rule.threshold
    \/ bills.ac >= -1000 /\ bills.ac < rule.threshold

\* the sequence of the elements of the set of positions S, ascending
Ascending(S) ==
    [j \in 1..Cardinality(S) |-> CHOOSE x \in S : Cardinality({y \in S : y < x}) = j - 1]

\* mutant: the rules are evaluated whatever data.success is
sendNotificationForStudentAlways(rules, data, hour) ==
    [fetched |-> TRUE,
     due |-> Ascending({j \in getNotificationsAtHourForUser(rules, data.qqId, hour) :
                           shouldSendNotification(rules[j], data.bills)})]

\* sendNotificationForStudent(data, hour).  fetched: the user's rules are
\* read and evaluated; due: the positions of the rules for which a message is
\* built and handed to the transport.  Nothing happens for a failed collection.
sendNotificationForStudent(rules, data, hour) ==
    IF ~data.success THEN [fetched |-> FALSE, due |-> <<>>]
    ELSE [fetched |-> TRUE,
          due |-> Ascending({j \in getNotificationsAtHourForUser(rules, data.qqId, hour) :
                                shouldSendNotification(rules[j], data.bills)})]


\* mutant: the first failure ends the loop over the due rules
notifyUntilFailure(qqId, due, oks) ==
    LET bad == {j \in 1..Len(due) : ~oks[j]}
        n == IF bad = {} THEN Len(due) ELSE CHOOSE j \in bad : \A i \in bad : j <= i
    IN  [j \in 1..n |-> [qqId |-> qqId, rule |-> due[j], ok |-> oks[j]]]

\* the loop over the due rules of an account: each message is built and
\* handed to the transport inside its own try block (oks[j]: chart and send
\* went through); a failure is logged and the loop goes on
notify(qqId, due, oks) ==
    [j \in 1..Len(due) |-> [qqId |-> qqId, rule |-> due[j], ok |-> oks[j]]]

\* the hours of the day at which a cycle of the model runs
Hours == {8}

\* the hourly timer fires: runHourlyTasks up to its first await
RunHourlyTasks ==
    /\ hourly.pc = "off"
    /\ \E hr \in Hours :
          LET h == [hourly EXCEPT !.hour = hr, !.list = getAllStudents(students)] IN
          IF Len(h.list) = 0
          THEN /\ hourly' = [h EXCEPT !.pc = "done"]
               /\ task' = task
          ELSE LET x == startBatch(h, task, students, now, config)
               IN  hourly' = x.h /\ task' = x.ts
    /\ UNCHANGED <<students, now, ticks, lastOp, portal, timer, config, history, sent,
                   notifications>>

\* every call of the batch in flight has returned
BatchDone ==
    /\ hourly.pc = "collect"
    /\ batchSettled(task, hourly.batch)
    /\ hourly' = batchResolved(hourly, task, config.batchSize, now)
    /\ UNCHANGED <<students, now, ticks, lastOp, task, portal, timer, config, history, sent,
                   notifications>>

\* the pause between two batches is over: i += batchSize, the next batch starts
PauseEnd ==
    /\ hourly.pc = "pause"
    /\ now' = Later(now, hourly.wakeAt)
    /\ LET x == startBatch([hourly EXCEPT !.i = @ + config.batchSize], task, students,
                           now', config)
       IN  hourly' = x.h /\ task' = x.ts
    /\ UNCHANGED <<students, ticks, lastOp, portal, timer, config, history, sent, notifications>>

\* phase 2: sendNotificationForStudent(results[k], currentHour); each send
\* goes through (ok) or throws and is logged
Notify ==
    /\ hourly.pc = "notify"
    /\ LET data == hourly.results[hourly.k]
           x == sendNotificationForStudent(notifications, data, hourly.hour)
       IN  /\ \E oks \in [1..Len(x.due) -> BOOLEAN] :
                 sent' = sent \o notify(data.qqId, x.due, oks)
           /\ hourly' = [hourly EXCEPT
                           !.evaluated = IF x.fetched THEN @ \cup {data.qqId} ELSE @,
                           !.k = @ + 1,
                           !.pc = IF hourly.k = Len(hourly.results) THEN "done" ELSE "notify"]
    /\ UNCHANGED <<students, now, ticks, lastOp, task, portal, timer, config, history,
                   notifications>>

\* DATA_COLLECTION_BATCH_SIZE ranges over 1..MaxBatchSize
MaxBatchSize == 2

\* the campus of the users bound when a cycle run starts
CampusOf(u) == IF u % 2 = 1 THEN "GZIC" ELSE "DXC"

\* The users bound when a cycle run starts: user 1 has a token in the cache,
\* the password of user 3 does not decrypt.  The notification rules: an
\* unconditional and a threshold rule (10 yuan) for user 1, a threshold rule
\* for user 2, and for every other user an unconditional rule at another hour.
RuleOf(j) ==
    IF j = 1 THEN [qq_id |-> 1, chat_type |-> "private", chat_id |-> 1, hour |-> 8,
                   threshold |-> NULL]
    ELSE IF j = 2 THEN [qq_id |-> 2, chat_type |-> "group", chat_id |-> 9, hour |-> 8,
                        threshold |-> 1000]
    ELSE IF j = 3 THEN [qq_id |-> 1, chat_type |-> "group", chat_id |-> 9, hour |-> 8,
                        threshold |-> 1000]
    ELSE [qq_id |-> j - 1, chat_type |-> "private", chat_id |-> j - 1, hour |-> 20,
          threshold |-> NULL]

Init ==
    /\ \E n \in 0..NumUsers :
          students = [u \in Users |->
                        IF u > n THEN NoRow
                        ELSE IF u = 1 THEN Row(CampusOf(u), 1, 1, 1, 7200 * 1000)
                        ELSE IF u = 3 THEN [NewRow(CampusOf(u)) EXCEPT !.decrypts = FALSE]
                        ELSE NewRow(CampusOf(u))]
    /\ now = 0
    /\ ticks = 0
    /\ lastOp = NoOp
    /\ portal = "plain"
    /\ \E b \in 1..MaxBatchSize : config = [billingRetryCount |-> 1, batchSize |-> b]
    /\ task = [u \in Users |-> IdleTask]
    /\ history = [u \in Users |-> 0]
    /\ hourly = NoHourly
    /\ sent = <<>>
    /\ notifications = [j \in 1..(NumUsers + 1) |-> RuleOf(j)]
    /\ timer = NoTimer

Next ==
    \/ RunHourlyTasks
    \/ BatchDone
    \/ PauseEnd
    \/ Notify
    \/ \E u \in Users : LoginReturn(u)
    \/ \E u \in Users : FetchReturn(u)
    \/ \E u \in Users : Wake(u)

Spec == Init /\ [][Next]_vars

\* ------------------------------------ the hourly timer and the shutdown
\* number of socket.open events in a run
MaxOpens == 2
\* the run ends when the clock reaches MaxHours whole hours
MaxHours == 2

\* mutant: the minutes term without its - 1
delayUntilNextHourOffByOne(t) ==
    LET minutes == (t \div 60000) % 60
        seconds == (t \div 1000) % 60
        milliseconds == t % 1000
    IN  (60 - minutes) * 60 * 1000 + (60 - seconds) * 1000 - milliseconds

\* startHourlyTimer: the delay computed from new Date() at time t (ms)
delayUntilNextHour(t) ==
    LET minutes == (t \div 60000) % 60
        seconds == (t \div 1000) % 60
        milliseconds == t % 1000
    IN  (60 - minutes - 1) * 60 * 1000 + (60 - seconds) * 1000 - milliseconds

\* stopHourlyTimer: clearInterval(hourlyInterval) when it is set
stopHourlyTimer(tm) ==
    IF tm.hourlyInterval # NULL
    THEN [tm EXCEPT !.live = {c \in @ : c.id # tm.hourlyInterval},
                    !.hourlyInterval = NULL]
    ELSE tm

\* a call of runHourlyTasks at time t by the timer id, which
\* startHourlyTimer set up at time setAt
called(tm, id, setAt, t) ==
    [tm EXCEPT !.running = @ + 1,
               !.triggers = Append(@, [id |-> id, setAt |-> setAt, at |-> t]),
               !.lateStart = @ \/ tm.phase = "stopping"]

\* the times at which a timer of the process is due
DueTimes ==
    {p.dueAt : p \in timer.pending} \cup {c.nextDue : c \in timer.live}
    \cup (IF timer.phase = "stopping" THEN {timer.sigintAt + GracePeriodMs} ELSE {})

\* napcat.on('socket.open'): the transport has connected or reconnected;
\* startHourlyTimer sets the timeout for the next whole hour
SocketOpen ==
    /\ timer.phase = "up"
    /\ ~timer.connected
    /\ timer.opens < MaxOpens
    /\ timer' = [timer EXCEPT
                   !.connected = TRUE,
                   !.opens = @ + 1,
                   !.pending = @ \cup {[id |-> timer.opens + 1, setAt |-> now,
                                        dueAt |-> now + delayUntilNextHour(now)]}]
    /\ UNCHANGED <<students, now, ticks, lastOp, task, portal, config, history, hourly,
                   sent, notifications>>

\* napcat.on('socket.close'): socketClose is signalled; a SIGINT handler
\* that awaits it goes on to db.close() and process.exit(0)
SocketClose ==
    /\ timer.phase # "exited"
    /\ timer.connected
    /\ timer' = [timer EXCEPT !.connected = FALSE, !.closed = TRUE,
                              !.phase = IF @ = "stopping" THEN "exited" ELSE @]
    /\ UNCHANGED <<students, now, ticks, lastOp, task, portal, config, history, hourly,
                   sent, notifications>>

\* the timeout of startHourlyTimer fires: runHourlyTasks() is called and
\* hourlyInterval = setInterval(runHourlyTasks, 60 * 60 * 1000)
TimeoutFires ==
    /\ timer.phase # "exited"
    /\ \E p \in timer.pending :
          /\ now = p.dueAt
          /\ timer' = [called(timer, p.id, p.setAt, now) EXCEPT
                         !.pending = @ \ {p},
                         !.live = @ \cup {[id |-> p.id, setAt |-> p.setAt,
                                           nextDue |-> now + HourMs]},
                         !.hourlyInterval = p.id]
    /\ UNCHANGED <<students, now, ticks, lastOp, task, portal, config, history, hourly,
                   sent, notifications>>

\* an interval fires: runHourlyTasks() is called
IntervalFires ==
    /\ timer.phase # "exited"
    /\ \E c \in timer.live :
          /\ now = c.nextDue
          /\ timer' = [called(timer, c.id, c.setAt, now) EXCEPT
                         !.live = (@ \ {c}) \cup {[c EXCEPT !.nextDue = @ + HourMs]}]
    /\ UNCHANGED <<students, now, ticks, lastOp, task, portal, config, history, hourly,
                   sent, notifications>>

\* a runHourlyTasks call in progress returns
CycleEnds ==
    /\ timer.phase # "exited"
    /\ timer.running > 0
    /\ timer' = [timer EXCEPT !.running = @ - 1]
    /\ UNCHANGED <<students, now, ticks, lastOp, task, portal, config, history, hourly,
                   sent, notifications>>

\* process.on('SIGINT'): the second signal exits at once; the first stops
\* the timer, disconnects and awaits the socket's close or the 5 s timeout
\* (socketClose signalled before: the await is over at once)
Sigint ==
    /\ timer.phase # "exited"
    /\ timer' = IF timer.phase = "stopping" THEN [timer EXCEPT !.phase = "exited"]
                ELSE [stopHourlyTimer(timer) EXCEPT
                        !.phase = IF timer.closed THEN "exited" ELSE "stopping",
                        !.sigintAt = now]
    /\ UNCHANGED <<students, now, ticks, lastOp, task, portal, config, history, hourly,
                   sent, notifications>>

\* the 5 s timeout of the SIGINT handler fires: db.close(), process.exit(0)
GraceExpires ==
    /\ timer.phase = "stopping"
    /\ now = timer.sigintAt + GracePeriodMs
    /\ timer' = [timer EXCEPT !.phase = "exited"]
    /\ UNCHANGED <<students, now, ticks, lastOp, task, portal, config, history, hourly,
                   sent, notifications>>

\* time passes until the next timer of the process is due
Elapse ==
    /\ timer.phase # "exited"
    /\ now \notin DueTimes
    /\ \E d \in DueTimes :
          /\ d > now
          /\ \A e \in DueTimes : e > now => d <= e
          /\ d <= MaxHours * HourMs
          /\ now' = d
    /\ UNCHANGED <<students, ticks, lastOp, task, portal, config, history, hourly,
                   sent, timer, notifications>>

\* where in the hour the process starts (ms after a whole hour)
StartTimes ==
    {m * 60000 + sec * 1000 + ms : m \in {0, 30, 59}, sec \in {0, 1, 59}, ms \in {0, 1, 999}}

InitTimer ==
    /\ students = [u \in Users |-> NoRow]
    /\ now \in StartTimes
    /\ ticks = 0
    /\ lastOp = NoOp
    /\ portal = "plain"
    /\ config = [billingRetryCount |-> 0, batchSize |-> 1]
    /\ task = [u \in Users |-> IdleTask]
    /\ history = [u \in Users |-> 0]
    /\ hourly = NoHourly
    /\ sent = <<>>
    /\ notifications = <<>>
    /\ timer = NoTimer

NextTimer ==
    \/ SocketOpen
    \/ SocketClose
    \/ TimeoutFires
    \/ IntervalFires
    \/ CycleEnds
    \/ Sigint
    \/ GraceExpires
    \/ Elapse

SpecTimer == InitTimer /\ [][NextTimer]_vars

\* ------------------------------------------------ getBills called by itself
InitBills ==
    /\ students = [u \in Users |-> NoRow]
    /\ now = 0
    /\ ticks = 0
    /\ lastOp = NoOp
    /\ portal = "all"
    /\ \E rc \in 0..MaxRetry : config = [billingRetryCount |-> rc, batchSize |-> 1]
    /\ \E campus \in Campuses :
          task = [u \in Users |->
                    IF u = 1
                    THEN enterGetBills([IdleTask EXCEPT !.caller = "getBills",
                                                        !.tok = <<1, 1, 1>>],
                                       campus, config.billingRetryCount, 0)
                    ELSE IdleTask]
    /\ history = [u \in Users |-> 0]
    /\ hourly = NoHourly
    /\ sent = <<>>
    /\ notifications = <<>>
    /\ timer = NoTimer

NextBills ==
    \/ \E u \in Users : FetchReturn(u)
    \/ \E u \in Users : Wake(u)

SpecBills == InitBills /\ [][NextBills]_vars

\* ------------------------------------------ one account's collection by itself
\* token_expires_at of the row when the run starts: no token, inside the
\* margin, exactly at the margin, far away
StartExpiries == {NULL, MarginMs - BaseDelayMs, MarginMs, 7200 * 1000}

InitAccount ==
    /\ \E campus \in Campuses, exp \in StartExpiries :
          students = [u \in Users |->
                        IF u = 1
                        THEN (IF exp = NULL THEN NewRow(campus) ELSE Row(campus, 1, 1, 1, exp))
                        ELSE NoRow]
    /\ now = 0
    /\ ticks = 0
    /\ lastOp = NoOp
    /\ portal = "plain"
    /\ \E rc \in 0..MaxRetry : config = [billingRetryCount |-> rc, batchSize |-> 1]
    /\ task = [u \in Users |-> IdleTask]
    /\ history = [u \in Users |-> 0]
    /\ hourly = NoHourly
    /\ sent = <<>>
    /\ notifications = <<>>
    /\ timer = NoTimer

NextAccount ==
    \/ StartCollect(1)
    \/ LoginReturn(1)
    \/ FetchReturn(1)
    \/ Wake(1)
    \/ Unbind(1)
    \/ Tick

SpecAccount == InitAccount /\ [][NextAccount]_vars

\* ------------------------------- parseBill of getBillsGZIC (billing.ts)
\* longest showData text of the model
MaxLen == 4
\* A text is a sequence of characters.  The characters of the model: two
\* digits, the sign, the point, the comma, the blank and a letter.
DigitChars == <<"0", "1", "2", "3", "4", "5", "6", "7", "8", "9">>
Digits == {"0", "5"}
Chars == Digits \cup {"-", ".", ",", " ", "x"}
Texts == UNION {[1..n -> Chars] : n \in 0..MaxLen}

\* A Number is NaN or a decimal: its sign, its whole part and its fraction as
\* a count of 10^-MaxLen; minus zero equals zero, as -0 === 0
NaN == [nan |-> TRUE, neg |-> FALSE, whole |-> 0, frac |-> 0]
Num(neg, whole, frac) ==
    [nan |-> FALSE, neg |-> neg /\ (whole # 0 \/ frac # 0), whole |-> whole,
     frac |-> frac]
Zero == Num(FALSE, 0, 0)
RECURSIVE Pow10(_)
Pow10(n) == IF n = 0 THEN 1 ELSE 10 * Pow10(n - 1)
DigitValue(c) == (CHOOSE d \in 1..10 : DigitChars[d] = c) - 1

\* how many elements of s from position i on are in the class cls
RECURSIVE RunLen(_, _, _)
RunLen(s, i, cls) ==
    IF i > Len(s) \/ s[i] \notin cls THEN 0 ELSE 1 + RunLen(s, i + 1, cls)

\* the digits s[i], ..., s[i + n - 1] read as a decimal integer
RECURSIVE DigitsValue(_, _, _)
DigitsValue(s, i, n) ==
    IF n = 0 THEN 0 ELSE 10 * DigitsValue(s, i, n - 1) + DigitValue(s[i + n - 1])

\* str.split(',').pop(): what follows the last comma, the whole text without one
LastSegment(s) ==
    LET commas == {i \in 1..Len(s) : s[i] = ","}
        from == IF commas = {} THEN 1
                ELSE (CHOOSE i \in commas : \A j \in commas : j <= i) + 1
    IN  SubSeq(s, from, Len(s))

\* str.trim()
Trim(s) ==
    LET inked == {i \in 1..Len(s) : s[i] # " "} IN
    IF inked = {} THEN <<>>
    ELSE SubSeq(s, CHOOSE i \in inked : \A j \in inked : i <= j,
                   CHOOSE i \in inked : \A j \in inked : j <= i)

\* raw.match(/[-\d.]+/): the leftmost longest run of signs, digits and points;
\* <<>> stands for null (no match)
NumberClass == Digits \cup {"-", "."}
Match(raw) ==
    LET hits == {i \in 1..Len(raw) : raw[i] \in NumberClass} IN
    IF hits = {} THEN <<>>
    ELSE LET i == CHOOSE i \in hits : \A j \in hits : i <= j
         IN  SubSeq(raw, i, i + RunLen(raw, i, NumberClass) - 1)

\* parseFloat(str): the longest prefix that is a decimal literal (an optional
\* sign, digits, an optional point and digits; digits on one side of the
\* point are enough), NaN when there is none
parseFloat(str) ==
    LET neg == Len(str) >= 1 /\ str[1] = "-"
        i == IF neg THEN 2 ELSE 1
        a == RunLen(str, i, Digits)
        point == i + a <= Len(str) /\ str[i + a] = "."
        b == IF point THEN RunLen(str, i + a + 1, Digits) ELSE 0
    IN  IF a = 0 /\ b = 0 THEN NaN
        ELSE Num(neg, DigitsValue(str, i, a),
                 DigitsValue(str, i + a + 1, b) * Pow10(MaxLen - b))

\* parseBill that never looks for the last comma
parseBillWholeText(text, isWater) ==
    LET raw == Trim(text)
        match == Match(raw)
    IN  parseFloat(IF match # <<>> THEN match ELSE <<"0">>)

\* parseBill(billData, isWater) on the showData text of billData
parseBill(text, isWater) ==
    LET raw == IF isWater
               THEN Trim(IF LastSegment(text) # <<>> THEN LastSegment(text) ELSE <<"0">>)
               ELSE Trim(text)
        match == Match(raw)
    IN  parseFloat(IF match # <<>> THEN match ELSE <<"0">>)

\* what getBillsGZIC returns on three bodies with code 200 whose showData
\* texts are data[1] (electric), data[2] (ac), data[3] (water)
parsedBills(data) ==
    [electric |-> parseBill(data[1], FALSE),
     water |-> parseBill(data[3], TRUE),
     ac |-> parseBill(data[2], FALSE)]

\* showData texts as the portal writes them
SampleTexts == {<<"x", "5", ".", "5">>, <<"-", "5", "x">>}

InitParse ==
    /\ students = [u \in Users |-> NoRow]
    /\ now = 0
    /\ ticks = 0
    /\ lastOp = NoOp
    /\ task = [u \in Users |-> IdleTask]
    /\ portal = "plain"
    /\ config = [billingRetryCount |-> 0, batchSize |-> 1]
    /\ history = [u \in Users |-> 0]
    /\ hourly = NoHourly
    /\ sent = <<>>
    /\ notifications = <<>>
    /\ timer = NoTimer

\* a call parseBill(billData, isWater), one call per run
ParseBill ==
    /\ lastOp.op = "none"
    /\ \E text \in Texts, isWater \in BOOLEAN :
          lastOp' = [op |-> "parseBill", text |-> text, isWater |-> isWater,
                     result |-> parseBill(text, isWater)]
    /\ UNCHANGED <<students, now, ticks>>
    /\ UNCHANGED cycleVars

\* getBillsGZIC on three successful responses, from the parsing on
ParseBills ==
    /\ lastOp.op = "none"
    /\ \E k \in 1..3, text \in Texts, other \in SampleTexts :
          LET data == [j \in 1..3 |-> IF j = k THEN text ELSE other] IN
          lastOp' = [op |-> "getBillsGZIC", data |-> data, result |-> parsedBills(data)]
    /\ UNCHANGED <<students, now, ticks>>
    /\ UNCHANGED cycleVars

NextParse ==
    \/ ParseBill
    \/ ParseBills

SpecParse == InitParse /\ [][NextParse]_vars

\* ------------------------------- the message handler (src/index.ts)
\* the replies of the handler besides MsgFailed and MsgSummary, by line
MsgUsageBind == "usage of bind (702)"
MsgCampus == "campus must be GZIC or DXC (707)"
MsgLoginFailed == "login failed, check card number and password (713)"
MsgBound == "bound (728)"
MsgNotBound == "not bound yet (741, 603)"
MsgTimeOrder == "start time must be before end time (761)"
MsgTimeFormat == "bad time parameter (765)"
MsgUsageNotify == "usage of notify (551)"
MsgNoRules == "no notification set (561)"
MsgRules == "the notifications set (581)"
MsgHour == "hour must be a number between 0 and 23 (587)"
MsgThreshold == "threshold must be a non-negative number (595)"
MsgNotifySet == "notification set (618)"

\* the id of the group chat of the model
GroupChat == 9
\* the chat a message comes from: the sender's id in a private chat
chatIdOf(private, qqId) == IF private THEN qqId ELSE GroupChat

\* String.prototype.toUpperCase on the campus words of the model (parseMessage
\* hands every segment over in lower case)
toUpperCase(str) ==
    IF str = "gzic" THEN "GZIC" ELSE IF str = "dxc" THEN "DXC" ELSE "XYZ"
\* params of a bind command: card id, password, campus
BindParams ==
    {<<"card", "pass">>} \cup {<<"card", "pass", c>> : c \in {"gzic", "dxc", "xyz"}}

\* the bind branch up to its first await

\* mutant: the bind branch without its isPrivateChat condition
bindStartAnyChat(private, params) ==
    LET r == [IdleTask EXCEPT !.caller = "bind"] IN
    IF Len(params) # 3 THEN [r EXCEPT !.pc = "done", !.reply = <<MsgUsageBind>>]
    ELSE IF toUpperCase(params[3]) \notin Campuses
    THEN [r EXCEPT !.pc = "done", !.reply = <<MsgCampus>>]
    ELSE [r EXCEPT !.pc = "login", !.campus = toUpperCase(params[3]), !.nLogins = 1]

bindStart(private, params) ==
    LET r == [IdleTask EXCEPT !.caller = "bind"] IN
    IF ~private THEN [r EXCEPT !.pc = "done"]
    ELSE IF Len(params) # 3 THEN [r EXCEPT !.pc = "done", !.reply = <<MsgUsageBind>>]
    ELSE IF toUpperCase(params[3]) \notin Campuses
    THEN [r EXCEPT !.pc = "done", !.reply = <<MsgCampus>>]
    ELSE [r EXCEPT !.pc = "login", !.campus = toUpperCase(params[3]), !.nLogins = 1]

\* the bind branch that stores whatever login() returned
onBindLoginNoNullCheck(tbl, r, u, x, t) ==
    IF x.kind = "throw"
    THEN [tbl |-> tbl, r |-> failed(r, Err(FALSE, "fetch failed", 0))]
    ELSE [tbl |-> updateTokens(addStudent(tbl, u, r.campus), u, NULL, NULL, NULL,
                               x.expiresIn, t),
          r |-> [r EXCEPT !.pc = "done", !.reply = Append(@, MsgBound)]]

\* the bind branch once login() has come to x at time t: null is answered
\* with the login-failed reply, a result is stored by db.addStudent and
\* db.updateTokens; an error thrown by login() reaches the catch block
onBindLogin(tbl, r, u, x, t) ==
    IF x.kind = "throw"
    THEN [tbl |-> tbl, r |-> failed(r, Err(FALSE, "fetch failed", 0))]
    ELSE IF x.kind = "null"
    THEN [tbl |-> tbl, r |-> [r EXCEPT !.pc = "done", !.reply = Append(@, MsgLoginFailed)]]
    ELSE [tbl |-> updateTokens(addStudent(tbl, u, r.campus), u, x.tok[1], x.tok[2],
                               x.tok[3], x.expiresIn, t),
          r |-> [r EXCEPT !.pc = "done", !.tok = x.tok, !.tokAt = t,
                          !.tokFrom = "login", !.reply = Append(@, MsgBound)]]

\* what parseTimeParameter and the order check make of the time parameters
TimeParams == {"none", "ok", "bad", "order"}

\* the query / bills branch up to its first await: the checks, then
\* getBillsWithTokenRefresh as far as getValidToken's first await
queryStart(tbl, u, t, retryCount, times) ==
    LET r == [IdleTask EXCEPT !.caller = "query", !.pc = "done"] IN
    IF ~getCredentials(tbl, u) THEN [r EXCEPT !.reply = <<MsgNotBound>>]
    ELSE IF times = "bad" THEN [r EXCEPT !.reply = <<MsgTimeFormat>>]
    ELSE IF times = "order" THEN [r EXCEPT !.reply = <<MsgTimeOrder>>]
    ELSE [startCollect(tbl, u, t, retryCount) EXCEPT !.caller = "query"]

\* parseInt(str): an optional sign, then the digits up to the first other
\* character, in base 16 after a 0x prefix; NaN without a digit
parseInt(str) ==
    LET neg == Len(str) >= 1 /\ str[1] = "-"
        i == IF neg THEN 2 ELSE 1
        hex == i + 1 <= Len(str) /\ str[i] = "0" /\ str[i + 1] = "x"
        d == IF hex THEN i + 2 ELSE i
        a == RunLen(str, d, Digits)
        RECURSIVE value(_)
        value(n) == IF n = 0 THEN 0
                    ELSE (IF hex THEN 16 ELSE 10) * value(n - 1) + DigitValue(str[d + n - 1])
    IN  IF a = 0 THEN NaN ELSE Num(neg, value(a), 0)

\* the word list and the parameter words of a notify command
ListWord == <<"l", "i", "s", "t">>
ParamTexts == {t \in Texts : Len(t) <= 2 /\ \A i \in 1..Len(t) : t[i] \notin {" ", ","}}
ThresholdTexts == {<<"5">>, <<"-", "5">>, <<"-", "0">>, <<".", "5">>, <<"x">>, <<"5", "x">>}
NotifyParams ==
    {<<>>, <<ListWord>>} \cup {<<h>> : h \in ParamTexts}
    \cup {<<h, th>> : h \in ParamTexts, th \in ThresholdTexts}
    \cup {<<<<"5">>, <<"5">>, <<"5">>>>}

\* a threshold as the table keeps it: NULL, or the number as a count of 10^-MaxLen
stored(threshold) ==
    IF threshold = <<>> THEN NULL
    ELSE threshold[1].whole * Pow10(MaxLen) + threshold[1].frac

\* NotificationScheduler.setNotification: the checks, then INSERT ... ON
\* CONFLICT(chat_type, chat_id, qq_id) DO UPDATE.  threshold is <<>> for
\* undefined.  ok is FALSE when it throws (NaN is bound as NULL, which the
\* hour column refuses).
setNotification(rules, chatType, chatId, qqId, hour, threshold) ==
    LET same == {j \in 1..Len(rules) :
                    rules[j].chat_type = chatType /\ rules[j].chat_id = chatId
                    /\ rules[j].qq_id = qqId}
        rule == [qq_id |-> qqId, chat_type |-> chatType, chat_id |-> chatId,
                 hour |-> hour.whole, threshold |-> stored(threshold)]
    IN  IF hour.nan \/ hour.neg \/ hour.whole > 23 THEN [ok |-> FALSE, rules |-> rules]
        ELSE IF threshold # <<>> /\ (threshold[1].nan \/ threshold[1].neg)
        THEN [ok |-> FALSE, rules |-> rules]
        ELSE IF same = {} THEN [ok |-> TRUE, rules |-> Append(rules, rule)]
        ELSE [ok |-> TRUE, rules |-> [j \in 1..Len(rules) |->
                                        IF j \in same THEN rule ELSE rules[j]]]

\* handleNotifyCommand without the check of the hour's range
handleNotifyCommandAnyHour(rules, tbl, qqId, chatType, chatId, params) ==
    IF Len(params) < 1 \/ Len(params) > 2 THEN [rules |-> rules, reply |-> MsgUsageNotify]
    ELSE IF params[1] = ListWord
    THEN [rules |-> rules,
          reply |-> IF \A j \in 1..Len(rules) : rules[j].qq_id # qqId
                    THEN MsgNoRules ELSE MsgRules]
    ELSE LET hour == parseInt(params[1])
             threshold == IF Len(params) = 2 THEN <<parseFloat(params[2])>> ELSE <<>>
             rule == [qq_id |-> qqId, chat_type |-> chatType, chat_id |-> chatId,
                      hour |-> hour.whole, threshold |-> stored(threshold)]
         IN  IF hour.nan THEN [rules |-> rules, reply |-> MsgHour]
             ELSE IF threshold # <<>> /\ (threshold[1].nan \/ threshold[1].neg)
             THEN [rules |-> rules, reply |-> MsgThreshold]
             ELSE IF ~getCredentials(tbl, qqId) THEN [rules |-> rules, reply |-> MsgNotBound]
             ELSE [rules |-> Append(rules, rule), reply |-> MsgNotifySet]

\* handleNotifyCommand(command, params, qqId, chatType, chatId, sendFn): the
\* table after it and the reply it sends
handleNotifyCommand(rules, tbl, qqId, chatType, chatId, params) ==
    IF Len(params) < 1 \/ Len(params) > 2 THEN [rules |-> rules, reply |-> MsgUsageNotify]
    ELSE IF params[1] = ListWord
    THEN [rules |-> rules,
          reply |-> IF \A j \in 1..Len(rules) : rules[j].qq_id # qqId
                    THEN MsgNoRules ELSE MsgRules]
    ELSE LET hour == parseInt(params[1])
             threshold == IF Len(params) = 2 THEN <<parseFloat(params[2])>> ELSE <<>>
             set == setNotification(rules, chatType, chatId, qqId, hour, threshold)
         IN  IF hour.nan \/ hour.neg \/ hour.whole > 23
             THEN [rules |-> rules, reply |-> MsgHour]
             ELSE IF threshold # <<>> /\ (threshold[1].nan \/ threshold[1].neg)
             THEN [rules |-> rules, reply |-> MsgThreshold]
             ELSE IF ~getCredentials(tbl, qqId) THEN [rules |-> rules, reply |-> MsgNotBound]
             ELSE IF set.ok THEN [rules |-> set.rules, reply |-> MsgNotifySet]
             ELSE [rules |-> rules, reply |-> MsgFailed]

\* a message "bind ..." of user u arrives; one command is handled per run
BindCommand(u) ==
    /\ lastOp.op = "none"
    /\ task[u].pc = "idle"
    /\ \E private \in BOOLEAN, params \in BindParams :
          /\ lastOp' = [op |-> "bind", user |-> u, private |-> private, params |-> params]
          /\ task' = [task EXCEPT ![u] = bindStart(private, params)]
    /\ UNCHANGED <<students, now, ticks, portal, timer, config, history, hourly, sent,
                   notifications>>

\* the login request of the bind branch comes back
BindLoginReturn(u) ==
    /\ task[u].pc = "login"
    /\ task[u].caller = "bind"
    /\ \E o \in LoginOutcomes(portal) :
          LET x == onBindLogin(students, task[u], u, o, now) IN
          /\ students' = x.tbl
          /\ task' = [task EXCEPT ![u] = [x.r EXCEPT !.lastLogin = o.kind]]
    /\ UNCHANGED <<now, ticks, lastOp, portal, timer, config, history, hourly, sent,
                   notifications>>

\* a message "query ..." or "bills ..." of user u arrives
QueryCommandOf(s, u) ==
    /\ lastOp.op = "none"
    /\ task[s].pc = "idle"
    /\ \E times \in TimeParams :
          /\ lastOp' = [op |-> "query", user |-> u, times |-> times]
          /\ task' = [task EXCEPT ![s] =
                        queryStart(students, u, now, config.billingRetryCount, times)]
    /\ UNCHANGED <<students, now, ticks, portal, timer, config, history, hourly, sent,
                   notifications>>

QueryCommand(u) == QueryCommandOf(u, u)

\* a message "notify ..." of user u arrives
NotifyCommand(u) ==
    /\ lastOp.op = "none"
    /\ task[u].pc = "idle"
    /\ \E private \in BOOLEAN, params \in NotifyParams :
          LET chatType == IF private THEN "private" ELSE "group"
              x == handleNotifyCommand(notifications, students, u, chatType,
                                       chatIdOf(private, u), params)
          IN  /\ lastOp' = [op |-> "notify", user |-> u, private |-> private,
                            params |-> params]
              /\ notifications' = x.rules
              /\ task' = [task EXCEPT ![u] =
                            [IdleTask EXCEPT !.caller = "notify", !.pc = "done",
                                             !.reply = <<x.reply>>]]
    /\ UNCHANGED <<students, now, ticks, portal, timer, config, history, hourly, sent>>

\* When a command arrives user 1 is unbound, bound without a token or bound
\* with a token in the cache; user 2 is bound; the table holds no rule, or a
\* rule of user 1 for the private chat and one of user 2 for the group chat.
InitCommand ==
    /\ \E campus \in Campuses, exp \in {0, NULL, 7200 * 1000} :
          students = [u \in Users |->
                        IF u = 1
                        THEN (IF exp = 0 THEN NoRow
                              ELSE IF exp = NULL THEN NewRow(campus)
                              ELSE Row(campus, 1, 1, 1, exp))
                        ELSE IF u = 2 THEN Row("GZIC", 2, 2, 2, 7200 * 1000)
                        ELSE NoRow]
    /\ now = 0
    /\ ticks = 0
    /\ lastOp = NoOp
    /\ portal = "flaky"
    /\ \E rc \in 0..1 : config = [billingRetryCount |-> rc, batchSize |-> 1]
    /\ task = [u \in Users |-> IdleTask]
    /\ history = [u \in Users |-> 0]
    /\ hourly = NoHourly
    /\ sent = <<>>
    /\ \E n \in {0, 2} :
          notifications =
              [j \in 1..n |->
                  [qq_id |-> j, chat_type |-> IF j = 1 THEN "private" ELSE "group",
                   chat_id |-> chatIdOf(j = 1, j), hour |-> 5, threshold |-> NULL]]
    /\ timer = NoTimer

NextCommand ==
    \/ BindCommand(1)
    \/ BindLoginReturn(1)
    \/ QueryCommand(1)
    \/ NotifyCommand(1)
    \/ LoginReturn(1)
    \/ FetchReturn(1)
    \/ Wake(1)

SpecCommand == InitCommand /\ [][NextCommand]_vars


\* ------------------- a query while the collection of the same user is running
\* The collection of user 1 runs in slot 1, the user's query in slot 2; the
\* cache holds a token when the run starts.
Slots == {1, 2}

InitRace ==
    /\ \E campus \in Campuses :
          students = [u \in Users |->
                        IF u = 1 THEN Row(campus, 1, 1, 1, HourMs) ELSE NoRow]
    /\ now = 0
    /\ ticks = 0
    /\ lastOp = NoOp
    /\ portal = "plain"
    /\ \E rc \in 0..1 : config = [billingRetryCount |-> rc, batchSize |-> 1]
    /\ task = [u \in Users |-> IdleTask]
    /\ history = [u \in Users |-> 0]
    /\ hourly = NoHourly
    /\ sent = <<>>
    /\ notifications = <<>>
    /\ timer = NoTimer

NextRace ==
    \/ StartCollect(1)
    \/ QueryCommandOf(2, 1)
    \/ \E s \in Slots : LoginReturnOf(s, 1)
    \/ \E s \in Slots : FetchReturnOf(s, 1)
    \/ \E s \in Slots : WakeOf(s)

SpecRace == InitRace /\ [][NextRace]_vars



\* ------------------------------------------- the hourly cycle, to its end
\* the users that may be bound when a run of the fair cycle starts
LiveUsers == {1, 2, 3}

InitLive ==
    /\ Init
    /\ \A u \in Users : students[u].exists => u \in LiveUsers

\* Every request that was issued comes back (fetch and the transport's send
\* resolve or reject), every timer that was set fires, and a continuation
\* whose promise is settled runs.
Fairness ==
    /\ \A u \in Users : WF_vars(LoginReturn(u))
    /\ \A u \in Users : WF_vars(FetchReturn(u))
    /\ \A u \in Users : WF_vars(Wake(u))
    /\ WF_vars(BatchDone)
    /\ WF_vars(PauseEnd)
    /\ WF_vars(Notify)

SpecLive == InitLive /\ [][Next]_vars /\ Fairness

\* --------------------------------------------- unbind and the hourly cycle
\* Users 1 and 2 are bound when the run starts, user 1 with a token in the
\* cache; a user may unbind at any time, before the cycle or while it runs.
InitUnbind ==
    /\ students = [u \in Users |->
                     IF u > 2 THEN NoRow
                     ELSE IF u = 1 THEN Row(CampusOf(u), 1, 1, 1, 7200 * 1000)
                     ELSE NewRow(CampusOf(u))]
    /\ now = 0
    /\ ticks = 0
    /\ lastOp = NoOp
    /\ portal = "plain"
    /\ \E b \in 1..MaxBatchSize : config = [billingRetryCount |-> 1, batchSize |-> b]
    /\ task = [u \in Users |-> IdleTask]
    /\ history = [u \in Users |-> 0]
    /\ hourly = NoHourly
    /\ sent = <<>>
    /\ notifications = [j \in 1..(NumUsers + 1) |-> RuleOf(j)]
    /\ timer = NoTimer

NextUnbind ==
    \/ Next
    \/ \E u \in Users : Unbind(u)

SpecUnbind == InitUnbind /\ [][NextUnbind]_vars

\* ------------------------------------------------ the token cache by itself
\* number of token-cache calls made in one run
MaxOps == 3
\* users that have a row when the run starts
BoundAtStart == {u \in Users : u <= 2}
\* what a caller may pass as expiresIn (seconds)
ExpiresInValues == {1, 300, 7200}

InitCache ==
    /\ students = [u \in Users |->
                     IF u \in BoundAtStart THEN NewRow("GZIC") ELSE NoRow]
    /\ now = 0
    /\ ticks = 0
    /\ lastOp = NoOp
    /\ task = [u \in Users |-> IdleTask]
    /\ portal = "plain"
    /\ config = [billingRetryCount |-> 0, batchSize |-> 1]
    /\ history = [u \in Users |-> 0]
    /\ hourly = NoHourly
    /\ sent = <<>>
    /\ notifications = <<>>
    /\ timer = NoTimer

\* a call db.updateTokens(qqId, accessToken, TGC, locSession, expiresIn)
UpdateTokens(u) ==
    /\ lastOp.n < MaxOps
    /\ \E tk \in LoginTokens, e \in ExpiresInValues :
          /\ students' = updateTokens(students, u, tk[1], tk[2], tk[3], e, now)
          /\ lastOp' = [op |-> "put", user |-> u, tok |-> tk,
                        exp |-> now + e * 1000, at |-> now, n |-> lastOp.n + 1,
                        rep |-> 0]
    /\ UNCHANGED <<now, ticks>>
    /\ UNCHANGED cycleVars

\* a call db.clearAccessToken(qqId)
ClearAccessToken(u) ==
    /\ lastOp.n < MaxOps
    /\ students' = clearAccessToken(students, u)
    /\ lastOp' = [op |-> "clear", user |-> u, tok |-> Absent, exp |-> 0,
                  at |-> now, n |-> lastOp.n + 1,
                  rep |-> IF lastOp.op = "clear" /\ lastOp.user = u
                          THEN lastOp.rep + 1 ELSE 1]
    /\ UNCHANGED <<now, ticks>>
    /\ UNCHANGED cycleVars

\* a call db.getTokens(qqId); tok is what it returned
GetTokens(u) ==
    /\ lastOp.n < MaxOps
    /\ lastOp' = [op |-> "get", user |-> u, tok |-> getTokens(students, u, now),
                  exp |-> 0, at |-> now, n |-> lastOp.n + 1, rep |-> 0]
    /\ UNCHANGED <<students, now, ticks>>
    /\ UNCHANGED cycleVars

NextCache ==
    \/ Tick
    \/ \E u \in Users : UpdateTokens(u)
    \/ \E u \in Users : ClearAccessToken(u)
    \/ \E u \in Users : GetTokens(u)

SpecCache == InitCache /\ [][NextCache]_vars



\* ------------------------------------- notify and unnotify, one after another
MsgUnnotified == "notification cancelled (632)"
MsgNoNotification == "no notification to cancel (634)"

\* the rules of the key (chat type, chat id, user)
rulesOf(rules, chatType, chatId, qqId) ==
    {j \in 1..Len(rules) :
        rules[j].chat_type = chatType /\ rules[j].chat_id = chatId /\ rules[j].qq_id = qqId}

\* mutant: DELETE ... WHERE qq_id = ?, every rule of the user
deleteNotificationOfUser(rules, chatType, chatId, qqId) ==
    [changed |-> \E j \in 1..Len(rules) : rules[j].qq_id = qqId,
     rules |-> SelectSeq(rules, LAMBDA r : r.qq_id # qqId)]

\* NotificationScheduler.deleteNotification: DELETE ... WHERE chat_type = ?
\* AND chat_id = ? AND qq_id = ?; result.changes > 0
deleteNotification(rules, chatType, chatId, qqId) ==
    [changed |-> rulesOf(rules, chatType, chatId, qqId) # {},
     rules |-> SelectSeq(rules, LAMBDA r : ~(r.chat_type = chatType /\ r.chat_id = chatId
                                             /\ r.qq_id = qqId))]

\* handleUnnotifyCommand(qqId, chatType, chatId, sendFn)
handleUnnotifyCommand(rules, qqId, chatType, chatId) ==
    LET deleted == deleteNotification(rules, chatType, chatId, qqId) IN
    [rules |-> deleted.rules,
     reply |-> IF deleted.changed THEN MsgUnnotified ELSE MsgNoNotification]

\* the parameters of the notify commands of a run of commands
RuleHours == {<<"0">>, <<"5">>, <<"5", "0">>, <<"x">>}
RuleParams ==
    {<<h>> : h \in RuleHours} \cup {<<h, th>> : h \in RuleHours, th \in {<<"5">>, <<"-", "5">>}}

\* a message "notify ..." of user u arrives, the n-th command of the run
NotifyMessage(u) ==
    /\ lastOp.n < MaxOps
    /\ \E private \in BOOLEAN, params \in RuleParams :
          LET chatType == IF private THEN "private" ELSE "group"
              x == handleNotifyCommand(notifications, students, u, chatType,
                                       chatIdOf(private, u), params)
          IN  /\ lastOp' = [op |-> "notify", user |-> u, private |-> private,
                            params |-> params, n |-> lastOp.n + 1]
              /\ notifications' = x.rules
              /\ task' = [task EXCEPT ![u] =
                            [IdleTask EXCEPT !.caller = "notify", !.pc = "done",
                                             !.reply = <<x.reply>>]]
    /\ UNCHANGED <<students, now, ticks, portal, timer, config, history, hourly, sent>>

\* a message "unnotify" of user u arrives, the n-th command of the run
UnnotifyMessage(u) ==
    /\ lastOp.n < MaxOps
    /\ \E private \in BOOLEAN :
          LET chatType == IF private THEN "private" ELSE "group"
              x == handleUnnotifyCommand(notifications, u, chatType, chatIdOf(private, u))
          IN  /\ lastOp' = [op |-> "unnotify", user |-> u, private |-> private,
                            params |-> <<>>, n |-> lastOp.n + 1]
              /\ notifications' = x.rules
              /\ task' = [task EXCEPT ![u] =
                            [IdleTask EXCEPT !.caller = "unnotify", !.pc = "done",
                                             !.reply = <<x.reply>>]]
    /\ UNCHANGED <<students, now, ticks, portal, timer, config, history, hourly, sent>>

\* Users 1 and 2 are bound; the table holds no rule, or a rule of user 2 for
\* the group chat.
InitRules ==
    /\ students = [u \in Users |-> IF u <= 2 THEN NewRow(CampusOf(u)) ELSE NoRow]
    /\ now = 0
    /\ ticks = 0
    /\ lastOp = [op |-> "none", user |-> 0, private |-> FALSE, params |-> <<>>, n |-> 0]
    /\ portal = "plain"
    /\ config = [billingRetryCount |-> 0, batchSize |-> 1]
    /\ task = [u \in Users |-> IdleTask]
    /\ history = [u \in Users |-> 0]
    /\ hourly = NoHourly
    /\ sent = <<>>
    /\ \E n \in 0..1 :
          notifications =
              [j \in 1..n |-> [qq_id |-> 2, chat_type |-> "group", chat_id |-> GroupChat,
                               hour |-> 5, threshold |-> NULL]]
    /\ timer = NoTimer

NextRules ==
    \/ NotifyMessage(1)
    \/ UnnotifyMessage(1)

SpecRules == InitRules /\ [][NextRules]_vars

\* ----------------------------------------------------- token cache: claims
\* a stored entry: all four token columns set
Stored(r) ==
    /\ r.exists
    /\ r.access_token # NULL /\ r.tgc # NULL /\ r.loc_session # NULL
    /\ r.token_expires_at # NULL

\* C7: db.getTokens returns absent for a user without a record and for every
\* stored entry whose expiresAt - now is below 5 minutes at the time of the
\* call, also when now < expiresAt.
C7_GetAbsentWithinMargin ==
    lastOp.op = "get" =>
        LET r == students[lastOp.user] IN
        (~r.exists \/ (Stored(r) /\ r.token_expires_at - lastOp.at < MarginMs))
            => lastOp.tok = Absent

\* C7 witness: a get on a complete entry that has not expired yet but is
\* inside the margin, answered absent
C7_Witness ==
    /\ lastOp.op = "get"
    /\ Stored(students[lastOp.user])
    /\ ~Falsy(students[lastOp.user].tgc)
    /\ lastOp.at < students[lastOp.user].token_expires_at
    /\ students[lastOp.user].token_expires_at - lastOp.at < MarginMs
    /\ lastOp.tok = Absent

\* C8 (as claimed): after db.updateTokens(u, t) for a bound user the row holds
\* t, db.getTokens(u) returns exactly the triple of t while t's expiry is at
\* least 5 minutes away, and it returns absent only without a record or
\* inside the margin.
C8_PutThenGet ==
    (lastOp.op = "put" /\ students[lastOp.user].exists) =>
        LET r == students[lastOp.user]
            got == getTokens(students, lastOp.user, now) IN
        /\ <<r.access_token, r.tgc, r.loc_session>> = lastOp.tok
        /\ r.token_expires_at = lastOp.exp
        /\ (lastOp.exp - now >= MarginMs => got = lastOp.tok)
        /\ (got = Absent => lastOp.exp - now < MarginMs)

\* C9: db.clearAccessToken(u) leaves db.getTokens(u) absent and the rows of
\* all other users unchanged, and a second call in a row changes nothing.
C9_InvalidateIdempotent ==
    [][\A u \in Users :
         (lastOp'.op = "clear" /\ lastOp'.user = u /\ lastOp'.n = lastOp.n + 1) =>
            /\ getTokens(students', u, now') = Absent
            /\ \A v \in Users \ {u} : students'[v] = students[v]
            /\ (lastOp'.rep >= 2 => students' = students)
            /\ clearAccessToken(students', u) = students']_vars

\* C9 witness: the second clear in a row for a bound user, while another
\* user's token is still handed out
C9_Witness ==
    /\ lastOp.op = "clear"
    /\ lastOp.rep = 2
    /\ students[lastOp.user].exists
    /\ getTokens(students, lastOp.user, now) = Absent
    /\ \E v \in Users \ {lastOp.user} : getTokens(students, v, now) # Absent

\* ---------------------------------------------------------- getBills: claims
\* C10 (as claimed): when an answer of an attempt of getBills has status 401,
\* on any request of either campus, every hop of the DXC chain included, no
\* delay is waited and no further attempt is made.
C10_Abort401 ==
    \A u \in Users : task[u].last401 => task[u].pc # "sleep"

\* C6 (as claimed): every billing request issued for a user carries a token
\* whose expiresAt minus the time of the request is at least 5 minutes, the
\* requests of retry attempts and of the second-chance fetch included.
C6_TokenFreshAtRequest ==
    \A u \in Users :
        task[u].pc = "fetch" /\ task[u].caller = "collect"
            => task[u].tokExp - task[u].reqAt >= MarginMs

\* C6 (amended): every billing request issued for a user carries either the
\* token db.getTokens handed out in this call, whose expiresAt was at least
\* 5 minutes after the time of that read, or a token obtained by a login of
\* this call; a call that finds the cached token absent or within the margin
\* issues no billing request before a login.
C6_TokenFreshWhenRead ==
    [][\A u \in Users :
          /\ (task'[u].pc = "fetch" /\ task'[u].caller = "collect")
                => /\ task'[u].tokAt <= task'[u].reqAt
                   /\ \/ /\ task'[u].tokFrom = "cache"
                         /\ task'[u].phase = 1
                         /\ task'[u].nLogins = 0
                         /\ task'[u].tokExp - task'[u].tokAt >= MarginMs
                      \/ /\ task'[u].tokFrom = "login"
                         /\ task'[u].nLogins >= 1
                         /\ task'[u].nLogins <= task'[u].phase
                         /\ task'[u].tok \in LoginTokens
          /\ (task[u].pc = "idle" /\ task'[u].pc = "fetch"
                /\ task'[u].caller = "collect")
                => /\ students[u].exists
                   /\ ~Falsy(students[u].token_expires_at)
                   /\ students[u].token_expires_at - now >= MarginMs
       ]_vars

\* C6 witness: a retry attempt in flight with the cached token, which was
\* exactly 5 minutes from its expiry when it was read
C6_Witness ==
    \E u \in Users :
        /\ task[u].pc = "fetch"
        /\ task[u].caller = "collect"
        /\ task[u].tokFrom = "cache"
        /\ task[u].attempt >= 1
        /\ task[u].tokExp - task[u].tokAt = MarginMs
        /\ task[u].tokExp - task[u].reqAt < MarginMs

\* --------------------------------------------------- hourly cycle: claims
\* the accounts of the cycle's list, as a set
Listed == {hourly.list[j] : j \in 1..Len(hourly.list)}
\* the accounts whose collection is in flight
InFlight == {u \in Users : task[u].pc \notin {"idle", "done"}}

\* C1: for an account whose Collection Result of the cycle has success =
\* false, sendNotificationForStudent evaluates no rule and hands nothing to
\* the transport.
C1_NoNotifyOnFailure ==
    \A j \in 1..Len(hourly.results) :
        ~hourly.results[j].success
            => /\ hourly.results[j].qqId \notin hourly.evaluated
               /\ \A m \in 1..Len(sent) : sent[m].qqId # hourly.results[j].qqId

\* C1 witness: a finished cycle in which the collection of user 1, who has an
\* unconditional rule for this hour, failed, while another account was notified
C1_Witness ==
    /\ hourly.pc = "done"
    /\ \E j \in 1..Len(hourly.results) :
          /\ hourly.results[j].qqId = 1
          /\ ~hourly.results[j].success
          /\ getNotificationsAtHourForUser(notifications, 1, hourly.hour) # {}
    /\ \E m \in 1..Len(sent) : sent[m].qqId = 2

\* C2: a step of the cycle that reads an account's rules or hands a message
\* to the transport is taken only when the collection of every account of
\* the cycle's list, in every batch, has resolved and its result is recorded.
C2_NotifyAfterAllCollected ==
    [][(sent' # sent \/ hourly'.evaluated # hourly.evaluated)
          => /\ \A u \in Listed : task[u].pc = "done"
             /\ Len(hourly.results) = Len(hourly.list)
             /\ \A j \in 1..Len(hourly.list) : hourly.results[j].qqId = hourly.list[j]
      ]_vars

\* C2 witness: a message has been handed to the transport in a cycle of
\* several batches, one of whose accounts failed after its retries
C2_Witness ==
    /\ Len(sent) > 0
    /\ Len(hourly.batches) >= 2
    /\ \E j \in 1..Len(hourly.results) :
          ~hourly.results[j].success /\ hourly.results[j].err.status = 500

\* C3: a failed collection is a result with success = false and an error,
\* and the cycle goes on: when collectData is over every account of the list
\* has its result, in list order, whatever failed before it.
C3_FailureDoesNotAbort ==
    /\ \A u \in Users :
          task[u].pc = "done" /\ task[u].caller = "collect"
              => \/ task[u].out.status = "ok" /\ task[u].out.err = NoError
                 \/ task[u].out.status = "err" /\ task[u].out.err # NoError
    /\ hourly.pc \in {"notify", "done"} /\ Len(hourly.list) > 0
          => /\ Len(hourly.results) = Len(hourly.list)
             /\ \A j \in 1..Len(hourly.list) :
                   /\ hourly.results[j].qqId = hourly.list[j]
                   /\ hourly.results[j].success = (task[hourly.list[j]].out.status = "ok")
                   /\ ~hourly.results[j].success => hourly.results[j].err # NoError
    /\ hourly.pc = "pause" => hourly.i + config.batchSize < Len(hourly.list)

\* C3 witness: the first account of the first batch failed for want of
\* credentials, an account failed at login, and the account of a later batch
\* was collected
C3_Witness ==
    /\ hourly.pc = "done"
    /\ Len(hourly.batches) >= 2
    /\ hourly.results[1].err.msg = "No credentials found"
    /\ \E j \in 1..Len(hourly.results) : hourly.results[j].err.msg = "Login failed"
    /\ hourly.results[Len(hourly.results)].success

\* C4: the k-th batch is the k-th run of batchSize accounts of the list (the
\* last one may be shorter), and when collectData is over there are
\* ceil(n / batchSize) batches and one result per account.
C4_BatchPartition ==
    LET n == Len(hourly.list)
        b == config.batchSize
    IN  /\ \A k \in 1..Len(hourly.batches) :
              /\ (k - 1) * b < n
              /\ hourly.batches[k] =
                    [j \in 1..(IF k * b <= n THEN b ELSE n - (k - 1) * b) |->
                        hourly.list[(k - 1) * b + j]]
        /\ hourly.pc \in {"notify", "done"} /\ n > 0
              => /\ Len(hourly.batches) * b >= n
                 /\ (Len(hourly.batches) - 1) * b < n
                 /\ Len(hourly.results) = n
                 /\ \A u \in Listed :
                       Cardinality({j \in 1..n : hourly.results[j].qqId = u}) = 1

\* C4 witness: three accounts and batch size 2 gave a batch of 2 and a batch
\* of 1
C4_Witness ==
    /\ hourly.pc = "done"
    /\ Len(hourly.list) = 3
    /\ config.batchSize = 2
    /\ Len(hourly.batches) = 2
    /\ Len(hourly.batches[1]) = 2
    /\ Len(hourly.batches[2]) = 1

\* C5: the collections in flight are accounts of the current batch, at most
\* batchSize of them; while a batch runs every account of the earlier batches
\* has resolved and no account of a later batch has started, and a batch
\* after the first starts no sooner than the pause after the end of the
\* batch before it.
C5_BatchConcurrency ==
    LET current == {hourly.batch[j] : j \in 1..Len(hourly.batch)}
        started == {hourly.list[j] : j \in 1..(IF hourly.i + Len(hourly.batch) < Len(hourly.list)
                                                THEN hourly.i + Len(hourly.batch)
                                                ELSE Len(hourly.list))}
    IN  /\ Cardinality(InFlight) <= config.batchSize
        /\ InFlight \subseteq current
        /\ \A u \in started \ current : task[u].pc = "done"
        /\ \A u \in Listed \ started : task[u].pc = "idle"
        /\ hourly.pc = "pause" => InFlight = {}
        /\ hourly.pc = "collect" /\ Len(hourly.batches) >= 2
              => /\ hourly.batchStartAt >= hourly.batchEndAt + PauseMs
                 /\ now >= hourly.batchStartAt

\* C5 witness: two collections of one batch in flight at the same time, one
\* of them waiting before its next attempt
C5_Witness ==
    /\ Cardinality(InFlight) = 2
    /\ config.batchSize = 2
    /\ \E u \in InFlight : task[u].pc = "sleep"

\* C11: in getBills an attempt that fails without a 401 is followed by the
\* next attempt until retryCount + 1 attempts have been made; the delay
\* before attempt k + 1 is 500 ms times k, the attempt is issued no sooner,
\* and no delay follows the last attempt.
C11_RetrySchedule ==
    \A u \in Users :
        LET r == task[u] IN
        r.caller = "getBills" =>
            /\ r.nAttempts <= r.retryCount + 1
            /\ \A k \in 1..Len(r.waited) : r.waited[k] = BaseDelayMs * k
            /\ r.pc = "fetch" =>
                  /\ Len(r.waited) = r.nAttempts - 1
                  /\ r.nAttempts = r.attempt + 1
                  /\ r.attempt >= 1 => r.reqAt >= r.wakeAt
            /\ r.pc = "sleep" =>
                  /\ Len(r.waited) = r.nAttempts
                  /\ r.nAttempts <= r.retryCount
                  /\ ~r.lastError.noretry
            /\ r.pc = "done" => Len(r.waited) = r.nAttempts - 1
            /\ (r.pc = "done" /\ r.out.status = "err" /\ ~r.last401)
                  => r.nAttempts = r.retryCount + 1

\* C11 witness: getBills with retryCount 2 gave up after a third attempt that
\* failed with a 500, having waited 500 ms and 1000 ms
C11_Witness ==
    \E u \in Users :
        /\ task[u].caller = "getBills"
        /\ task[u].pc = "done"
        /\ task[u].out.err.status = 500
        /\ task[u].nAttempts = 3
        /\ task[u].waited = <<BaseDelayMs, 2 * BaseDelayMs>>

\* C12 (as claimed): getBills returns the bills of its first successful
\* attempt; otherwise it throws the error of the last attempt made, and that
\* error carries the NORETRY mark exactly when a 401 caused it.
C12_ResultOfGetBills ==
    \A u \in Users :
        LET r == task[u] IN
        (r.caller = "getBills" /\ r.pc = "done") =>
            \/ /\ r.out.status = "ok"
               /\ r.out.err = NoError
               /\ r.reqs >= 3
            \/ /\ r.out.status = "err"
               /\ r.out.err = r.lastError
               /\ r.out.err # NoError
               /\ r.out.err.noretry <=> r.out.err.status = 401

\* ----------------------------------------- getBillsWithTokenRefresh: claims
\* C13 (as claimed): the first fetch of a call uses the cached token, and
\* the call makes one login, the fresh login after a failure of that fetch.
C13_CachedThenOneLogin ==
    \A u \in Users :
        task[u].caller = "collect" =>
            /\ (task[u].phase = 1 /\ task[u].pc \in {"fetch", "sleep"})
                  => task[u].tokFrom = "cache"
            /\ task[u].nLogins <= 1

\* C13 (amended): the first getBills call uses the cached token when
\* db.getTokens returns one, else the token of a first login.  When anything
\* fails in this first try (that login included) the user's token columns are
\* cleared and, if credentials exist, exactly one more login is made, its
\* token stored and getBills called exactly once more; a failure of that
\* login or of that call ends the collection with the error.
C13_SecondChance ==
    [][\A u \in Users :
          LET r == task[u]
              q == task'[u]
          IN  (q.caller = "collect" /\ q # r) =>
                /\ q.nLogins <= 2 /\ q.nCalls <= 2
                /\ (q.phase = 1 /\ q.pc \in {"fetch", "sleep"})
                      => /\ q.nCalls = 1
                         /\ \/ q.tokFrom = "cache" /\ q.nLogins = 0
                            \/ q.tokFrom = "login" /\ q.nLogins = 1
                /\ (/\ r.phase = 1 /\ r.pc \in {"login", "fetch"}
                    /\ \/ q.phase = 2
                       \/ /\ q.pc = "done" /\ q.out.status = "err"
                          /\ q.out.err.msg # "FOREIGN KEY constraint failed")
                      => /\ getTokens(students', u, now') = Absent
                         /\ students'[u].exists
                               => /\ students'[u].access_token = NULL
                                  /\ students'[u].tgc = NULL
                                  /\ students'[u].loc_session = NULL
                                  /\ students'[u].token_expires_at = NULL
                         /\ \/ /\ q.phase = 2 /\ q.pc = "login"
                               /\ q.nLogins = r.nLogins + 1
                               /\ q.nCalls = r.nCalls
                            \/ /\ q.pc = "done"
                               /\ q.out.err.msg = "No credentials found for user"
                /\ (r.phase = 2 /\ r.pc = "login")
                      => \/ /\ q.pc = "fetch" /\ q.phase = 2 /\ q.nCalls = r.nCalls + 1
                            /\ q.tokFrom = "login" /\ q.nLogins = r.nLogins
                            /\ students'[u].access_token = q.tok[1]
                            /\ students'[u].tgc = q.tok[2]
                            /\ students'[u].loc_session = q.tok[3]
                         \/ q.pc = "done" /\ q.out.status = "err"
                /\ (r.phase = 2 /\ r.pc \in {"fetch", "sleep"})
                      => \/ /\ q.phase = 2 /\ q.pc \in {"fetch", "sleep"}
                            /\ q.nCalls = r.nCalls /\ q.nLogins = r.nLogins
                         \/ q.pc = "done"
       ]_vars

\* C13 witness: the second getBills call of a collection in flight, after a
\* first login, a failed first call and the fresh login
C13_Witness ==
    \E u \in Users :
        /\ task[u].caller = "collect"
        /\ task[u].phase = 2
        /\ task[u].pc = "fetch"
        /\ task[u].nLogins = 2
        /\ task[u].nCalls = 2
        /\ students[u].access_token = task[u].tok[1]

\* C14 (as claimed): once getBills has ended with the NORETRY (401) failure
\* for an account, no login request and no billing request is issued for
\* that account any more.
C14_NoUseAfter401 ==
    \A u \in Users :
        (task[u].caller = "collect" /\ task[u].lastError.noretry)
            => task[u].pc \notin {"login", "fetch", "sleep"}

\* C14 (amended): getBills waits for nothing and attempts nothing after the
\* NORETRY (401) failure.  When this ends the first getBills call of the
\* collection, the user's token is cleared and, if credentials exist, one
\* fresh login follows; when it ends the second call, the collection ends
\* with that error and no further request.
C14_OneFreshLoginAfter401 ==
    [][\A u \in Users :
          LET r == task[u]
              q == task'[u]
          IN  (q.caller = "collect" /\ q # r) =>
                /\ q.lastError.noretry
                      => /\ r.pc = "fetch" /\ r.phase = 1
                         /\ q.pc = "login" /\ q.phase = 2
                         /\ q.nLogins = r.nLogins + 1
                         /\ q.nLogins <= 2
                         /\ getTokens(students', u, now') = Absent
                /\ (r.lastError.noretry /\ q.pc \in {"fetch", "sleep"})
                      => /\ r.pc = "login" /\ q.pc = "fetch"
                         /\ q.phase = 2 /\ q.attempt = 0
                         /\ q.lastError = NoError /\ q.tokFrom = "login"
                /\ (r.pc = "fetch" /\ r.phase = 2 /\ q.pc = "done" /\ q.out.err.noretry)
                      => q.out.err.status = 401
       ]_vars

\* C14 witness: the fresh login in flight after the first getBills call
\* ended with a 401
C14_Witness ==
    \E u \in Users :
        /\ task[u].caller = "collect"
        /\ task[u].pc = "login"
        /\ task[u].phase = 2
        /\ task[u].lastError.noretry
        /\ task[u].lastError.status = 401

\* C15: in a cycle one Billing Snapshot is appended for an account in the
\* step in which its collection succeeds, so before phase 2 starts, and none
\* for an account whose collection is in flight, has failed or has not started.
C15_SnapshotPerSuccess ==
    /\ \A u \in Users :
          history[u] = IF task[u].pc = "done" /\ task[u].caller = "collect"
                          /\ task[u].out.status = "ok"
                       THEN 1 ELSE 0
    /\ hourly.pc \in {"notify", "done"}
          => \A j \in 1..Len(hourly.results) :
                history[hourly.results[j].qqId] =
                    IF hourly.results[j].success THEN 1 ELSE 0

\* C15 witness: while a batch is still in flight, the snapshot of an account
\* of that batch that has already succeeded is in the table
C15_Witness ==
    /\ hourly.pc = "collect"
    /\ \E u \in Users, v \in InFlight :
          /\ task[u].pc = "done"
          /\ task[u].out.status = "ok"
          /\ history[u] = 1
          /\ history[v] = 0

\* ------------------------------------------------ timer and shutdown: claims
\* C16 (as claimed): whatever socket.open, socket.close and reconnect events
\* have happened, at most one hourly timer is active and at most one
\* runHourlyTasks call is in progress.
C16_SingleTimer ==
    /\ Cardinality(timer.pending) + Cardinality(timer.live) <= 1
    /\ timer.running <= 1

\* C17 (as claimed): once SIGINT has been handled no runHourlyTasks call is
\* started, whether the first run was still pending or the interval was
\* running, and the process ends no later than 5 s after the signal.
C17_NoCycleAfterSigint ==
    /\ ~timer.lateStart
    /\ timer.phase = "stopping" => now <= timer.sigintAt + GracePeriodMs

\* C18: the delay startHourlyTimer computes is in (0, 3600000] and ends at
\* the next whole hour; the timer it sets up calls runHourlyTasks first at
\* that instant and then every 3600000 ms.
C18_TopOfHour ==
    /\ \A p \in timer.pending :
          /\ p.dueAt - p.setAt > 0
          /\ p.dueAt - p.setAt <= HourMs
          /\ p.dueAt = (p.setAt \div HourMs + 1) * HourMs
    /\ \A c \in timer.live : c.nextDue % HourMs = 0 /\ c.nextDue >= now
    /\ \A j \in 1..Len(timer.triggers) :
          LET g == timer.triggers[j]
              earlier == {i \in 1..(j - 1) : timer.triggers[i].id = g.id}
          IN  g.at = (g.setAt \div HourMs + 1) * HourMs + Cardinality(earlier) * HourMs

\* C18 witness: a timer set up 1 ms before a whole hour has called
\* runHourlyTasks twice, one hour apart
C18_Witness ==
    \E i, j \in 1..Len(timer.triggers) :
        /\ i < j
        /\ timer.triggers[i].id = timer.triggers[j].id
        /\ timer.triggers[i].setAt % HourMs = HourMs - 1
        /\ timer.triggers[i].at = timer.triggers[i].setAt + 1
        /\ timer.triggers[j].at = timer.triggers[i].at + HourMs

\* ------------------------------------------------- shared state: claims
\* C19: in a cycle the token columns and the snapshot series of a user are
\* written only by a step of that user's own collection, and such a step
\* writes the entries of no other user and moves no other collection.
C19_DisjointWrites ==
    [][\A u \in Users :
          (students'[u] # students[u] \/ history'[u] # history[u])
              => /\ task[u].pc \in {"login", "fetch"}
                 /\ task[u].caller = "collect"
                 /\ task'[u] # task[u]
                 /\ \A v \in Users \ {u} :
                       /\ students'[v] = students[v]
                       /\ history'[v] = history[v]
                       /\ task'[v] = task[v]
      ]_vars

\* C19 witness: two collections of one batch in flight, one having cleared
\* its user's cached token after a failure, the other having stored a token
C19_Witness ==
    \E u, v \in InFlight :
        /\ u # v
        /\ task[u].phase = 2
        /\ students[u].access_token = NULL
        /\ task[v].tokFrom = "login"
        /\ students[v].access_token = task[v].tok[1]

\* ------------------------------------------------------------------ C20
\* the post-condition of redirect hop k of getBillsDXC on answer r: HTTP 302
\* with a location (thirdLogin also sets the session cookie, getCode redirects
\* to the index page)
HopPassed(k, r) ==
    /\ ~r.net
    /\ r.status = 302
    /\ r.loc # NoLoc
    /\ (k = 2 => r.cookie)
    /\ (k = 4 => r.loc = IndexPath)

\* C20: the DXC redirect chain is linear.  In every attempt the requests are
\* issued in order from hop 1; a request is issued only after every hop before
\* it (there are four) returned 302 with a location; a hop that fails its
\* post-condition is the last request of the attempt, which fails with a
\* retriable error (no later hop, no data endpoint); an attempt that succeeds
\* issued all seven requests, also when it is a retry; and a retry starts with
\* no answer carried over from the attempt before.
C20_LinearChain ==
    \A u \in Users :
        LET r == task[u] IN
        (r.caller = "getBills" /\ r.campus = "DXC") =>
            /\ Len(r.seen) <= 7
            /\ (r.pc = "fetch" => r.seen = <<>>)
            /\ \A k \in 1..Len(r.seen) :
                   k <= 4 =>
                       /\ (k < Len(r.seen) =>
                              r.seen[k].status = 302 /\ r.seen[k].loc # NoLoc
                              /\ HopPassed(k, r.seen[k]))
                       /\ (~HopPassed(k, r.seen[k]) =>
                              /\ Len(r.seen) = k
                              /\ r.lastError # NoError
                              /\ ~r.lastError.noretry
                              /\ r.pc \in {"sleep", "done"}
                              /\ (r.pc = "done" => r.out.status = "err"))
            /\ (r.pc = "done" /\ r.out.status = "ok" => Len(r.seen) = 7)
            /\ (r.pc \in {"sleep", "done"} =>
                   /\ Len(r.seen) >= 1
                   /\ r.reqs >= Len(r.seen) + (r.nAttempts - 1)
                   /\ r.reqs <= Len(r.seen) + 7 * (r.nAttempts - 1))

\* a retry went through the whole chain and succeeded after an attempt that
\* ended at a failing hop after the first
C20_Witness ==
    \E u \in Users :
        /\ task[u].caller = "getBills" /\ task[u].campus = "DXC"
        /\ task[u].pc = "done" /\ task[u].out.status = "ok"
        /\ task[u].nAttempts = 2
        /\ Len(task[u].seen) = 7
        /\ task[u].reqs \in 9..11

\* ------------------------------------------------------------------ C21
\* C21: hop 4 (getCode) of the DXC chain passes only on a 302 whose location
\* is the index page.  A 302 with another location, or with none, ends the
\* attempt with the error "Expected redirect to index" and no data endpoint is
\* queried; a data endpoint is queried only after hop 4 answered 302 with that
\* location.
C21_FixedTarget ==
    \A u \in Users :
        LET r == task[u] IN
        (r.caller = "getBills" /\ r.campus = "DXC" /\ Len(r.seen) >= 4) =>
            /\ (Len(r.seen) > 4 =>
                   ~r.seen[4].net /\ r.seen[4].status = 302 /\ r.seen[4].loc = IndexPath)
            /\ (~r.seen[4].net /\ r.seen[4].status = 302 /\ r.seen[4].loc # IndexPath =>
                   /\ Len(r.seen) = 4
                   /\ r.lastError.msg = "Get getCode failed: Expected redirect to index"
                   /\ r.pc \in {"sleep", "done"}
                   /\ (r.pc = "done" => r.out.status = "err" /\ r.out.bills = NoBills))

\* the last hop answered 302 with a location other than the index page
C21_Witness ==
    \E u \in Users :
        /\ task[u].caller = "getBills" /\ task[u].campus = "DXC"
        /\ Len(task[u].seen) = 4
        /\ task[u].seen[4].status = 302 /\ task[u].seen[4].loc = SomeUrl
        /\ task[u].pc = "done" /\ task[u].out.status = "err"

\* ------------------------------------------------------------------ C22
\* the names of the four hops in the messages of getBillsDXC
HopName == <<"Get redirect", "Get thirdLogin", "Get authorize", "Get getCode">>
\* what a hop can be found wanting of, as the message puts it after the name
HopReasons ==
    {" failed: Expected 302", ": No redirect location found",
     ": Failed to get JSESSIONID cookie", " failed: Expected redirect to index"}

Hop2MissingCookie(u) ==
    /\ task[u].caller = "getBills" /\ task[u].campus = "DXC"
    /\ Len(task[u].seen) = 2
    /\ ~task[u].seen[2].net /\ ~task[u].seen[2].cookie
\* ... set the cookie but had a status other than 302
Hop2BadStatus(u) ==
    /\ task[u].caller = "getBills" /\ task[u].campus = "DXC"
    /\ Len(task[u].seen) = 2
    /\ ~task[u].seen[2].net /\ task[u].seen[2].cookie /\ task[u].seen[2].status # 302

\* C23 (as claimed): at hop 2 a missing session cookie and a status other than
\* 302 are two distinct failures, and getBills treats exactly one of the two
\* as retriable and the other as not retriable: when an attempt ends at hop 2
\* for one of the two, the error of the same chain failing for the other is
\* classified the other way.
C23_OneOfTwoRetriable ==
    \A u \in Users :
        LET r == task[u]
            chain(answer) == [GoodChain(500) EXCEPT ![1] = r.seen[1], ![2] = answer]
        IN  /\ Hop2MissingCookie(u) =>
                  LET other == getBillsDXC(chain(Resp(FALSE, 500, SomeUrl, TRUE, 200, 0)))
                  IN  /\ other.err.msg # r.lastError.msg
                      /\ other.err.noretry # r.lastError.noretry
            /\ Hop2BadStatus(u) =>
                  LET other == getBillsDXC(chain(Resp(FALSE, 302, SomeUrl, FALSE, 200, 0)))
                  IN  /\ other.err.msg # r.lastError.msg
                      /\ other.err.noretry # r.lastError.noretry

\* ------------------------------------------------------------------ C24
\* the names of the three data requests in the messages of getBillsDXC
DataName == <<"Get userInfo", "Get ammeterBalanceResponse", "Get waterBalance">>
\* a data response that is not HTTP-successful or whose body does not carry
\* the success status code
DataBad(r) == r.net \/ ~Ok(r) \/ r.code # 200

\* C24: getBillsDXC queries the data endpoints only after all four hops have
\* passed, the profile first and then the two balances, each with the session
\* cookie alone; a data response that is not HTTP-successful or does not
\* carry the success code fails the attempt, no later data endpoint is
\* queried and no balance is returned; on success electric and water are the
\* balances of the two balance responses and ac is exactly 0.
C24_DataAfterChain ==
    \A u \in Users :
        LET r == task[u]
            n == Len(r.seen) IN
        (r.caller = "getBills" /\ r.campus = "DXC" /\ n >= 5) =>
            /\ \A k \in 1..4 : HopPassed(k, r.seen[k])
            /\ \A k \in 5..n :
                  /\ cookiesSent[k] = {"JSESSIONID"}
                  /\ (k < n => ~DataBad(r.seen[k]))
                  /\ (DataBad(r.seen[k]) =>
                         /\ n = k
                         /\ r.pc \in {"sleep", "done"}
                         /\ r.lastError # NoError
                         /\ (~r.seen[k].net =>
                                r.lastError.msg \in {DataName[k - 4] \o " failed: HTTP",
                                                     DataName[k - 4] \o " API Error"})
                         /\ (r.pc = "done" =>
                                r.out.status = "err" /\ r.out.bills = NoBills))
            /\ (r.pc = "done" /\ r.out.status = "ok" =>
                   /\ n = 7
                   /\ r.out.bills.ac = 0
                   /\ r.out.bills.electric = r.seen[6].val
                   /\ r.out.bills.water = r.seen[7].val)

\* a DXC call returned balances, and another attempt ended at a balance
\* response whose body carried a failure code
C24_Witness ==
    \E u \in Users :
        /\ task[u].caller = "getBills" /\ task[u].campus = "DXC"
        /\ task[u].pc = "done" /\ task[u].out.status = "ok"
        /\ task[u].out.bills.ac = 0 /\ task[u].out.bills.electric = 5000
        /\ task[u].lastError.msg = "Get ammeterBalanceResponse API Error"

\* ------------------------------------------------------------------ C25
\* the positions of the GZIC responses rs that are not HTTP-successful
NotOkAt(rs) == {i \in 1..3 : ~Ok(rs[i])}
\* the positions whose body carries a code other than 200
BadCodeAt(rs) == {i \in 1..3 : rs[i].code # 200}

\* C25: when one of the three responses of getBillsGZIC, in whichever
\* position, is not HTTP-successful or carries a code other than 200, the
\* attempt fails with an error that carries the status or code of an
\* offending response, and no value of any response is returned.
C25_AnyBadFails ==
    \A u \in Users :
        LET r == task[u] IN
        (/\ r.caller = "getBills" /\ r.campus = "GZIC" /\ Len(r.seen) = 3
         /\ \A i \in 1..3 : ~r.seen[i].net
         /\ NotOkAt(r.seen) \cup BadCodeAt(r.seen) # {}) =>
            /\ r.pc \in {"sleep", "done"}
            /\ (r.pc = "done" => r.out.status = "err" /\ r.out.bills = NoBills)
            /\ IF NotOkAt(r.seen) # {}
               THEN /\ r.lastError.msg = "HTTP"
                    /\ r.lastError.status \in {r.seen[i].status : i \in NotOkAt(r.seen)}
               ELSE /\ r.lastError.msg = "API Error"
                    /\ r.lastError.status \in {r.seen[i].code : i \in BadCodeAt(r.seen)}

\* only the third body carried a failure code and the call ended in that error
C25_Witness ==
    \E u \in Users :
        /\ task[u].caller = "getBills" /\ task[u].campus = "GZIC"
        /\ Len(task[u].seen) = 3
        /\ NotOkAt(task[u].seen) = {} /\ BadCodeAt(task[u].seen) = {3}
        /\ task[u].pc = "done" /\ task[u].out.status = "err"
        /\ task[u].out.err.status = 500

\* ------------------------------------------------------ parseBill: claims
\* the text contains a digit
HasDigit(s) == \E i \in 1..Len(s) : s[i] \in Digits
\* where the first signed decimal of s starts: at a digit, or at a sign that a
\* digit follows; 0 when s has none
DecimalStart(s) ==
    LET starts == {i \in 1..Len(s) :
                     \/ s[i] \in Digits
                     \/ s[i] = "-" /\ i < Len(s) /\ s[i + 1] \in Digits} IN
    IF starts = {} THEN 0 ELSE CHOOSE i \in starts : \A j \in starts : i <= j
\* the value of the first signed decimal of s: an optional sign, digits, and
\* a point with digits after it when there is one
FirstSignedDecimal(s) ==
    LET i == DecimalStart(s)
        neg == s[i] = "-"
        d == IF neg THEN i + 1 ELSE i
        a == RunLen(s, d, Digits)
        b == IF d + a <= Len(s) /\ s[d + a] = "." THEN RunLen(s, d + a + 1, Digits) ELSE 0
    IN  Num(neg, DigitsValue(s, d, a), DigitsValue(s, d + a + 1, b) * Pow10(MaxLen - b))
\* a well-formed showData text: it has a number, and no sign or point stands
\* in the text before that number
WellFormed(s) ==
    /\ HasDigit(s)
    /\ \A i \in 1..(DecimalStart(s) - 1) : s[i] \notin NumberClass

\* C26: on three well-formed showData texts getBillsGZIC returns electric
\* from the first response, ac from the second and water from the third, each
\* the number found in its text, where for water only what follows the last
\* comma is parsed.
C26_ValuesFromTexts ==
    (/\ lastOp.op = "getBillsGZIC"
     /\ WellFormed(lastOp.data[1]) /\ WellFormed(lastOp.data[2])
     /\ WellFormed(LastSegment(lastOp.data[3]))) =>
        /\ lastOp.result.electric = FirstSignedDecimal(lastOp.data[1])
        /\ lastOp.result.ac = FirstSignedDecimal(lastOp.data[2])
        /\ lastOp.result.water = FirstSignedDecimal(LastSegment(lastOp.data[3]))

\* the water text lists a number before its last comma and another after it
C26_Witness ==
    /\ lastOp.op = "getBillsGZIC"
    /\ WellFormed(lastOp.data[1]) /\ WellFormed(lastOp.data[2])
    /\ WellFormed(LastSegment(lastOp.data[3]))
    /\ \E i \in 2..Len(lastOp.data[3]) :
          lastOp.data[3][i] = "," /\ HasDigit(SubSeq(lastOp.data[3], 1, i - 1))
    /\ lastOp.result.water # FirstSignedDecimal(lastOp.data[3])
    /\ lastOp.result.water # lastOp.result.electric

\* C27 (as claimed): parseBill yields the first signed decimal of the text it
\* parses, and exactly 0 for every text without a digit, texts with signs or
\* points among other characters included.
C27_NoNumberIsZero ==
    lastOp.op = "parseBill" =>
        LET field == IF lastOp.isWater THEN LastSegment(lastOp.text) ELSE lastOp.text IN
        /\ (~HasDigit(lastOp.text) => lastOp.result = Zero)
        /\ (HasDigit(field) => lastOp.result = FirstSignedDecimal(field))

\* --------------------------------------------------- message handler: claims
\* C28: when login() returns null (the login response carries no access
\* token), nothing is written to u's token columns except the NULLs of the
\* cache invalidation, no billing request is issued by that step, and a bind
\* command leaves the students table as it was and answers that the login
\* failed.
C28_NoTokenNoBinding ==
    [][\A u \in Users :
          (task[u].pc = "login" /\ task'[u] # task[u] /\ task'[u].lastLogin = "null") =>
              /\ students'[u].exists = students[u].exists
              /\ (students[u].exists =>
                     /\ students'[u].campus = students[u].campus
                     /\ \/ students'[u] = students[u]
                        \/ students' = clearAccessToken(students, u))
              /\ task'[u].pc # "fetch"
              /\ task'[u].tok \in {task[u].tok, Absent}
              /\ (task[u].caller = "bind" =>
                     /\ students' = students
                     /\ task'[u].pc = "done"
                     /\ task'[u].reply = <<MsgLoginFailed>>)]_vars

\* a bind command of an unbound user whose login returned null
C28_Witness ==
    \E u \in Users :
        /\ lastOp.op = "bind" /\ lastOp.user = u
        /\ task[u].caller = "bind" /\ task[u].pc = "done"
        /\ task[u].lastLogin = "null"
        /\ ~students[u].exists

IsHour(word) ==
    LET neg == Len(word) >= 1 /\ word[1] = "-"
        d == IF neg THEN 2 ELSE 1 IN
    /\ Len(word) >= d
    /\ \A i \in d..Len(word) : word[i] \in Digits
    /\ DigitsValue(word, d, Len(word) - d + 1) <= 23
    /\ (neg => DigitsValue(word, d, Len(word) - d + 1) = 0)
\* the word is a negative number
IsNegative(word) ==
    /\ Len(word) >= 2 /\ word[1] = "-"
    /\ ~parseFloat(word).nan /\ parseFloat(word) # Zero

\* C30 (as claimed): a notify command whose hour is not an integer in 0..23,
\* or whose threshold is negative, changes no notification rule and is
\* answered with the hour or threshold message; a bind command whose campus
\* is neither GZIC nor DXC issues no login, changes no binding and is
\* answered with the campus message.
C30_RejectedBeforeEffect ==
    [][LET u == lastOp'.user
           badNotify ==
               /\ lastOp.op = "none" /\ lastOp'.op = "notify"
               /\ Len(lastOp'.params) \in {1, 2} /\ lastOp'.params[1] # ListWord
               /\ \/ ~IsHour(lastOp'.params[1])
                  \/ Len(lastOp'.params) = 2 /\ IsNegative(lastOp'.params[2])
           badBind ==
               /\ lastOp.op = "none" /\ lastOp'.op = "bind" /\ lastOp'.private
               /\ Len(lastOp'.params) = 3 /\ lastOp'.params[3] \notin {"gzic", "dxc"}
       IN  /\ badNotify => (/\ notifications' = notifications
                            /\ task'[u].reply \in {<<MsgHour>>, <<MsgThreshold>>})
           /\ badBind => (/\ students' = students
                          /\ task'[u].pc = "done"
                          /\ task'[u].nLogins = 0
                          /\ task'[u].reply = <<MsgCampus>>)]_vars

\* ---------------------------------------------------------------- C31
\* the rule at position j is due for the collected data in this cycle
DueRule(j, data) ==
    /\ notifications[j].qq_id = data.qqId
    /\ notifications[j].hour = hourly.hour

\* a message for rule j of the account was built and handed to the transport
Handed(j, qqId) ==
    \E i \in 1..Len(sent) : sent[i].qqId = qqId /\ sent[i].rule = j

\* C31: for a successfully collected account whose notification step has
\* run, a due rule with no threshold is sent, and a due rule with a threshold
\* t is sent if and only if one of the balances (electric, water, ac) is
\* below t.
C31_SentIffBelow ==
    hourly.pc \in {"notify", "done"} =>
        \A k \in 1..(hourly.k - 1) :
            LET data == hourly.results[k] IN
            data.success =>
                \A j \in 1..Len(notifications) :
                    DueRule(j, data) =>
                        (Handed(j, data.qqId) <=>
                            \/ notifications[j].threshold = NULL
                            \/ data.bills.electric < notifications[j].threshold
                            \/ data.bills.water < notifications[j].threshold
                            \/ data.bills.ac < notifications[j].threshold)

\* ---------------------------------------------------------------- C32
\* C32: a bind command that arrives in a group chat starts no login, stores
\* no credentials and no token and leaves every binding as it was, at the
\* step that handles it and ever after; the handler is finished at once.
C32_GroupBindIgnored ==
    [][(lastOp'.op = "bind" /\ ~lastOp'.private) =>
          /\ students' = students
          /\ task'[lastOp'.user].pc = "done"
          /\ task'[lastOp'.user].nLogins = 0
          /\ task'[lastOp'.user].tok = Absent
          /\ task'[lastOp'.user].reply = <<>>]_vars

\* an unbound user sends a complete bind command with a valid campus in a
\* group chat
C32_Witness ==
    /\ lastOp.op = "bind" /\ ~lastOp.private
    /\ Len(lastOp.params) = 3
    /\ toUpperCase(lastOp.params[3]) \in Campuses
    /\ ~students[lastOp.user].exists
    /\ task[lastOp.user].pc = "done"

\* ---------------------------------------------------------------- C33
\* C33: when db.getTokens returns a token at the start of
\* getBillsWithTokenRefresh, the first fetch is issued at once with exactly
\* that token and no login before it; a login precedes the first fetch only
\* when db.getTokens returned nothing, and the token it obtained is in the
\* cache when that fetch is issued.
C33_FirstFetchToken ==
    [][\A u \in Users :
          LET r == task[u]
              q == task'[u]
              cached == getTokens(students, u, now)
          IN  (q.caller = "collect" /\ q # r) =>
                /\ (r.pc = "idle" /\ getCredentials(students, u) /\ cached # Absent)
                      => /\ q.pc = "fetch" /\ q.phase = 1
                         /\ q.tok = cached /\ q.tokFrom = "cache"
                         /\ q.nLogins = 0 /\ q.nCalls = 1
                         /\ students' = students
                /\ (r.pc = "idle" /\ q.pc = "login") => cached = Absent
                /\ (r.pc = "login" /\ r.phase = 1 /\ q.pc = "fetch" /\ q.phase = 1)
                      => /\ r.nCalls = 0 /\ q.nCalls = 1 /\ q.nLogins = 1
                         /\ q.tokFrom = "login"
                         /\ students'[u].exists
                         /\ students'[u].access_token = q.tok[1]
                         /\ students'[u].tgc = q.tok[2]
                         /\ students'[u].loc_session = q.tok[3]
                         /\ students'[u].token_expires_at = q.tokExp
       ]_vars

\* the first fetch of a collection is in flight with the token the cache
\* returned, no login made
C33_Witness ==
    \E u \in Users :
        /\ task[u].caller = "collect" /\ task[u].phase = 1
        /\ task[u].pc = "fetch" /\ task[u].nCalls = 1
        /\ task[u].tokFrom = "cache" /\ task[u].nLogins = 0
        /\ task[u].tok = getTokens(students, u, task[u].tokAt)

\* ---------------------------------------------------------------- C34
\* C34: a failure while the message of one rule is built or sent stays with
\* that rule: every rule of a processed account that is due and passes its
\* threshold test has been attempted, whatever failed before it, every
\* account of the cycle is processed, and the cycle ends in its final state.
C34_FailureConfined ==
    /\ hourly.pc \in {"notify", "done"} =>
          \A k \in 1..(hourly.k - 1) :
              LET data == hourly.results[k] IN
              data.success =>
                  \A j \in 1..Len(notifications) :
                      (DueRule(j, data) /\ shouldSendNotification(notifications[j], data.bills))
                          => Handed(j, data.qqId)
    /\ hourly.pc = "notify" => hourly.k \in 1..Len(hourly.results)
    /\ (hourly.pc = "done" /\ Len(hourly.list) > 0) =>
          /\ hourly.k = Len(hourly.results) + 1
          /\ Len(hourly.results) = Len(hourly.list)

\* the cycle is complete; the message of a rule failed and a rule of a later
\* account was attempted, and the message of a rule failed and the next rule
\* of the same account was attempted
C34_Witness ==
    /\ hourly.pc = "done"
    /\ \E i \in 1..Len(sent) : \E n \in 1..Len(sent) :
          i < n /\ ~sent[i].ok /\ sent[n].qqId # sent[i].qqId
    /\ \E i \in 1..Len(sent) : \E m \in 1..Len(sent) :
          i < m /\ ~sent[i].ok /\ sent[m].qqId = sent[i].qqId /\ sent[m].rule # sent[i].rule

\* ---------------------------------------------------------------- C35
\* the rules of the table other than those of the key
OtherRules(rules, chatType, chatId, qqId) ==
    SelectSeq(rules, LAMBDA r : ~(r.chat_type = chatType /\ r.chat_id = chatId
                                  /\ r.qq_id = qqId))

\* C35: after any sequence of notify and unnotify commands the table holds at
\* most one rule per (chat type, chat id, user), every rule has an hour in
\* 0..23 and no threshold or a non-negative one; an accepted notify command
\* leaves exactly one rule for its key, with the hour and threshold of the
\* command, and every other rule as it was; unnotify removes the rule of its
\* key and nothing else, and its reply tells whether there was one.
C35_OneRulePerKey ==
    /\ [](\A i \in 1..Len(notifications) :
             /\ notifications[i].hour \in 0..23
             /\ notifications[i].threshold = NULL \/ notifications[i].threshold >= 0
             /\ \A j \in 1..Len(notifications) :
                   (/\ notifications[j].chat_type = notifications[i].chat_type
                    /\ notifications[j].chat_id = notifications[i].chat_id
                    /\ notifications[j].qq_id = notifications[i].qq_id) => j = i)
    /\ [][LET op == lastOp'
              chatType == IF op.private THEN "private" ELSE "group"
              chatId == chatIdOf(op.private, op.user)
              before == rulesOf(notifications, chatType, chatId, op.user)
              after == rulesOf(notifications', chatType, chatId, op.user)
          IN  /\ OtherRules(notifications', chatType, chatId, op.user)
                    = OtherRules(notifications, chatType, chatId, op.user)
              /\ op.op = "notify" =>
                    IF task'[op.user].reply = <<MsgNotifySet>>
                    THEN /\ Cardinality(after) = 1
                         /\ \A j \in after :
                               /\ notifications'[j].hour = parseInt(op.params[1]).whole
                               /\ notifications'[j].threshold =
                                     IF Len(op.params) = 2
                                     THEN stored(<<parseFloat(op.params[2])>>) ELSE NULL
                         /\ Len(notifications') =
                               Len(notifications) + (IF before = {} THEN 1 ELSE 0)
                    ELSE notifications' = notifications
              /\ op.op = "unnotify" =>
                    /\ after = {}
                    /\ task'[op.user].reply =
                          <<IF before # {} THEN MsgUnnotified ELSE MsgNoNotification>>
       ]_vars

\* three commands were handled, the last one an unnotify of user 1 in the
\* private chat, where no rule existed; the table holds the rule of user 2
\* and the one rule user 1 has set for the group chat, with a threshold
C35_Witness ==
    /\ lastOp.op = "unnotify" /\ lastOp.private /\ lastOp.n = 3
    /\ task[1].reply = <<MsgNoNotification>>
    /\ Len(notifications) = 2
    /\ notifications[2].qq_id = 1 /\ notifications[2].chat_type = "group"
    /\ notifications[2].hour = 0 /\ notifications[2].threshold # NULL

\* ---------------------------------------------------------------- C36
\* C36: one call of getBillsWithTokenRefresh makes at most two logins and
\* enters getBills at most twice, so it issues at most
\* 2 * (billingRetryCount + 1) fetch attempts.
C36_BoundedWork ==
    \A u \in Users :
        /\ task[u].nLogins <= 2
        /\ task[u].nCalls <= 2
        /\ task[u].nAttempts <= config.billingRetryCount + 1
        /\ task[u].nFetches <= 2 * (config.billingRetryCount + 1)

\* a collection that reached every bound: two logins, the second getBills
\* call in its last attempt after a first call that used all of its attempts
C36_Witness ==
    \E u \in Users :
        /\ task[u].caller = "collect" /\ task[u].pc = "fetch"
        /\ config.billingRetryCount >= 1
        /\ task[u].nLogins = 2 /\ task[u].nCalls = 2
        /\ task[u].nFetches = 2 * (config.billingRetryCount + 1)

\* ---------------------------------------------------------------- C37
\* C37: for a collected account of the DXC campus, whose ac balance is
\* reported as 0, a due rule with a threshold t is sent only if the electric
\* or the water balance is below t.
C37_DxcNeedsLowBalance ==
    hourly.pc \in {"notify", "done"} =>
        \A k \in 1..(hourly.k - 1) :
            LET data == hourly.results[k] IN
            (data.success /\ students[data.qqId].campus = "DXC" /\ data.bills.ac = 0) =>
                \A j \in 1..Len(notifications) :
                    (/\ DueRule(j, data)
                     /\ notifications[j].threshold # NULL
                     /\ Handed(j, data.qqId))
                        => \/ data.bills.electric < notifications[j].threshold
                           \/ data.bills.water < notifications[j].threshold

\* ---------------------------------------------------------------- C38
\* the cache of user 1 holds the token the call in slot o stored after its
\* login, and that call is still in flight
StoredBy(o) ==
    /\ task[o].pc \in {"fetch", "sleep"}
    /\ task[o].tokFrom = "login"
    /\ students[1].exists
    /\ students[1].access_token = task[o].tok[1]
    /\ students[1].tgc = task[o].tok[2]
    /\ students[1].loc_session = task[o].tok[3]
    /\ students[1].token_expires_at = task[o].tokExp

\* C38: while a query and a collection of the same user run concurrently, a
\* step of one call that has made no login itself never clears the token the
\* other call stored after its login; and when both calls have ended with the
\* bills, the cache holds a token.
C38_NoCrossInvalidate ==
    /\ [][\A s \in Slots :
             (task'[s] # task[s] /\ task[s].nLogins = 0 /\ StoredBy(3 - s))
                 => students'[1].access_token # NULL]_vars
    /\ []((\A s \in Slots : task[s].pc = "done" /\ task[s].out.status = "ok")
             => students[1].exists /\ students[1].access_token # NULL)

\* ---------------------------------------------------------------- C39
\* user u is not in the list the cycle read when it started
NotListed(u) == \A i \in 1..Len(hourly.list) : hourly.list[i] # u

\* C39: once unbind has completed (the one step that changes a row and no
\* call in flight) the user's credentials and cached token are gone while
\* the notification rules stay as they were; in a cycle that
\* starts afterwards no login or fetch is made, no snapshot is written and no
\* notification is evaluated or sent for the user.
C39_UnboundIsSkipped ==
    /\ [][\A u \in Users :
             (students'[u] # students[u] /\ task' = task) =>
                 /\ ~students'[u].exists
                 /\ ~getCredentials(students', u)
                 /\ getTokens(students', u, now') = Absent
                 /\ notifications' = notifications]_vars
    /\ [](\A u \in Users :
             (hourly.pc # "off" /\ NotListed(u)) =>
                 /\ ~students[u].exists
                 /\ task[u].pc = "idle"
                 /\ task[u].nLogins = 0 /\ task[u].nFetches = 0
                 /\ history[u] = 0
                 /\ u \notin hourly.evaluated
                 /\ \A i \in 1..Len(sent) : sent[i].qqId # u)

\* a cycle that started after user 1 had unbound has ended: user 1 still has
\* a rule for the hour of the cycle, user 2 was collected and notified
C39_Witness ==
    /\ hourly.pc = "done"
    /\ NotListed(1) /\ ~students[1].exists
    /\ \E j \in 1..Len(notifications) :
          notifications[j].qq_id = 1 /\ notifications[j].hour = hourly.hour
    /\ \E i \in 1..Len(sent) : sent[i].qqId = 2

\* ---------------------------------------------------------------- C40
\* C40: if every request and every send comes back and every timer fires, a
\* cycle that has started finishes its batches and reaches the notification
\* phase, and the notification phase runs to the end of runHourlyTasks.
C40_CycleTerminates ==
    /\ (hourly.pc \in {"collect", "pause"}) ~> (hourly.pc = "notify")
    /\ (hourly.pc = "notify") ~> (hourly.pc = "done")

\* a cycle of two batches and the pause between them has ended, with an
\* account whose collection failed and a notification whose send failed
C40_Witness ==
    /\ hourly.pc = "done"
    /\ Len(hourly.batches) >= 2
    /\ \E k \in 1..Len(hourly.results) : ~hourly.results[k].success
    /\ \E i \in 1..Len(sent) : ~sent[i].ok
====
